---- MODULE Spec2Model ----
(***************************************************************************)
(* PNG decode/encode through the RLBox sandbox: PngFormat::onLoad and      *)
(* PngFormat::onSave of src/app/file/png_format.cpp, with the callbacks    *)
(* read_data_fn and png_user_chunk that the sandboxed libpng calls back.   *)
(*                                                                         *)
(* One behaviour is one call of onLoad or of onSave.  Every value that     *)
(* comes out of the sandbox (return values, memory the sandbox wrote,      *)
(* memory nobody wrote) is an input drawn from a small set at the step     *)
(* that reads it.                                                          *)
(***************************************************************************)
EXTENDS Integers, Sequences, FiniteSets, TLC

\* ------------------------------------------------------------------ bounds
MaxWidth  == 2      \* image width  1..MaxWidth
MaxHeight == 2      \* image height 1..MaxHeight
MaxPasses == 2      \* png_set_interlace_handling returns 1..MaxPasses
MaxReads  == 1      \* read_data_fn invocations per domain call
MaxChunks == 1      \* unknown chunks per file / per document
MaxTrans  == 2      \* alpha values in a tRNS chunk, 0..MaxTrans
MaxColors == 2      \* colours of a palette, 1..MaxColors

\* -------------------------------------------------- libpng colour types
PNG_COLOR_TYPE_GRAY       == 0
PNG_COLOR_TYPE_RGB        == 2
PNG_COLOR_TYPE_PALETTE    == 3
PNG_COLOR_TYPE_GRAY_ALPHA == 4
PNG_COLOR_TYPE_RGB_ALPHA  == 6
PNG_MAX_PALETTE_LENGTH    == 256

\* mutant: the switch also accepts the colour type outside the five
SupportedColorTypesAndMore ==
  { PNG_COLOR_TYPE_RGB_ALPHA, PNG_COLOR_TYPE_RGB, PNG_COLOR_TYPE_GRAY_ALPHA,
    PNG_COLOR_TYPE_GRAY, PNG_COLOR_TYPE_PALETTE, 7 }
SupportedColorTypes ==
  { PNG_COLOR_TYPE_RGB_ALPHA, PNG_COLOR_TYPE_RGB, PNG_COLOR_TYPE_GRAY_ALPHA,
    PNG_COLOR_TYPE_GRAY, PNG_COLOR_TYPE_PALETTE }

\* colour types a header can declare: the five above and one outside them
HeaderColorTypes == SupportedColorTypes \cup {7}

\* ------------------------------------------------------- resource names
Callbacks == {"userChunkCb", "readDataCb"}
AppPtrs   == {"optsPtr", "appPtr"}
Handles   == Callbacks \cup AppPtrs

VARIABLES
  pc,             \* position inside onLoad / onSave
  op,             \* "none", "load", "save": which call this behaviour is
  ret,            \* "none", "true", "false", "threw", "aborted"
  path,           \* which return statement was taken
  heap,           \* buffers of the sandbox heap that are allocated now
  nMalloc,        \* calls of malloc_in_sandbox in this call
  nFree,          \* calls of free_in_sandbox in this call
  nBadFree,       \* releases of something that is not an allocated buffer
  reg,            \* handle -> times registered (register_callback / get_app_pointer)
  unreg,          \* handle -> times unregistered
  fopError,       \* message given to fop->setError, "" if none
  pngError,       \* message handed to png_error inside the sandbox, "" if none
  inDomain,       \* sandbox function that is running and may call back
  reads,          \* read_data_fn calls made by the running sandbox function
  opts,           \* PngOptions chunks collected by png_user_chunk
  color_type, width, height, number_passes,
  pass, y,
  stopFlag,       \* the FileOp's stop request, as isStop() last returned it
  readAfterStop,  \* png_read_rows was called after isStop() returned true
  hasAlpha,       \* fop->sequenceSetHasAlpha state
  trnsDeclared,   \* the file has a tRNS chunk
  trnsColor,      \* the transparent colour that chunk declares (non-indexed)
  png_trans_color,\* what onLoad read back through png_trans_color_ptr
  plteRead,       \* the palette branch of onLoad ran
  trans,          \* the alpha values the palette block read (its local `trans`)
  alphaCalls,     \* sequenceSetAlpha calls of the palette block: <<index, alpha>>
  transparentColor,    \* sprite->transparentColor()
  rowbuf,         \* bytes the last conversion read from its row buffer
  imageRow,       \* pixels the last conversion wrote to its row of the doc::Image
  docChunks,      \* chunks of the document's PngOptions (onSave)
  unknowns,       \* the png_unknown_chunk vector onSave builds
  handedChunks,   \* chunks onSave passed to png_set_unknown_chunks
  pixelFormat,    \* host image pixel format
  needAlpha,      \* sprite->needAlpha()
  fix_one_alpha_pixel,
  csType,         \* sprite colour space type seen by onSave
  csFlags,        \* its hasGamma() and hasPrimaries()
  csCalls,        \* domain functions saveColorSpace invoked, in order
  palAlpha,       \* stored alpha of each palette entry (sequenceGetAlpha), onSave
  bgLayer,        \* sprite->backgroundLayer(): "absent", "hidden", "visible"
  tRNSSet,        \* onSave called png_set_tRNS
  fileTrans,      \* the alphas onSave passed to png_set_tRNS
  colorSpace,     \* what loadColorSpace returned ("unset" before it ran)
  csChunks,       \* colour-space chunks of the file, as the domain reported them
  spriteColorSpace,    \* sprite->colorSpace()
  embeddedProfile,     \* fop->setEmbeddedColorProfile() was called
  imageRequested, \* onLoad called fop->sequenceImage(...)
  rowReadIssued,  \* onLoad called png_read_rows
  mainPc,         \* position inside app_main
  domain,         \* the isolation domain: "none", "created", "failed", "destroyed"
  nCreate,        \* calls of create_sandbox()
  nDestroy,       \* calls of destroy_sandbox()
  guard,          \* the PngEncoderOneAlphaPixel object around the encode
  compromised,    \* the codec inside the domain is under the control of the file
  imageWidth, imageHeight,  \* png_get_image_width / height: size of the doc::Image
  numRowBytes,    \* png_get_rowbytes: length each row buffer is allocated with
  ioAccess,       \* last read_data_fn call: bytes verified / bytes written
  chunkAccess,    \* last png_user_chunk call: bytes verified / bytes copied
  lastRowRead,    \* <<pass, row>> of the last png_read_rows call of the row loops
  progress,       \* the value last given to fop->setProgress by a row loop
  nWriteRow,      \* calls of png_write_row in this encode
  regOrder,       \* handles in the order they were acquired
  unregOrder,     \* handles in the order they were released
  nColors,        \* fop->sequenceGetNColors() (onSave)
  num_palette,    \* the count png_get_PLTE reported (onLoad)
  colorCalls      \* sequenceSetColor calls of onLoad: <<index, colour>>

resVars   == <<heap, nMalloc, nFree, nBadFree, reg, unreg>>
errVars   == <<fopError, pngError>>
hdrVars   == <<color_type, width, height, number_passes>>
loopVars  == <<pass, y>>
stopVars  == <<stopFlag, readAfterStop>>
trnsVars  == <<trnsDeclared, trnsColor, png_trans_color, plteRead, trans,
               alphaCalls, transparentColor>>
pixVars   == <<rowbuf, imageRow>>
palVars   == <<palAlpha, bgLayer, tRNSSet, fileTrans>>
scsVars   == <<csFlags, csCalls>>
saveVars  == <<docChunks, unknowns, handedChunks, needAlpha,
               fix_one_alpha_pixel, csType, scsVars, palVars>>
csVars    == <<colorSpace, csChunks, spriteColorSpace, embeddedProfile>>
callVars  == <<imageRequested, rowReadIssued>>
procVars  == <<mainPc, domain, nCreate, nDestroy, guard>>
boundVars == <<compromised, imageWidth, imageHeight, numRowBytes>>
accessVars == <<ioAccess, chunkAccess>>
progVars  == <<lastRowRead, progress, nWriteRow>>
orderVars == <<regOrder, unregOrder>>
plteVars  == <<nColors, num_palette, colorCalls>>
extVars   == <<boundVars, accessVars, progVars, orderVars, plteVars>>
vars == <<pc, op, ret, path, resVars, errVars, inDomain, reads, opts, hdrVars,
          loopVars, stopVars, hasAlpha, trnsVars,
          pixVars, saveVars, pixelFormat, csVars, callVars, procVars,
          extVars>>

\* ------------------------------------------------------------ sandbox heap
\* A buffer is <<name, index>>; the index tells the row buffers apart.
Buf(name) == <<name, 0>>
RowBuf(row) == <<"row", row>>

Bufs(names) == {Buf(n) : n \in names}

\* ------------------------------------------------- register / unregister
CountIn(s, r) == Cardinality({i \in 1..Len(s) : s[i] = r})

\* callback.unregister() / app_pointer.unregister() for a list of handles
UnregisterAll(cnt, s) == [r \in Handles |-> cnt[r] + CountIn(s, r)]

RegisterAll(cnt, set) == [r \in Handles |-> IF r \in set THEN cnt[r] + 1 ELSE cnt[r]]

\* The unregister calls of each return statement of onLoad, in source order.
TeardownPngNull   == <<"userChunkCb">>
\* mutant: the info-failure return also unregisters the read callback
TeardownInfoNullAll == <<"userChunkCb", "readDataCb", "optsPtr">>
TeardownInfoNull  == <<"userChunkCb", "optsPtr">>
\* mutant: the colour-type return forgets the FILE token
TeardownColorTypeNoApp == <<"readDataCb", "userChunkCb", "optsPtr">>
TeardownColorType == <<"readDataCb", "userChunkCb", "appPtr", "optsPtr">>
TeardownNoImage   == <<"userChunkCb", "readDataCb", "appPtr", "optsPtr">>
TeardownSuccess   == <<"readDataCb", "userChunkCb", "appPtr", "optsPtr">>

\* ------------------------------------------------------------ file content
\* Samples of one pixel as the sandbox can deliver them, per colour type.
DomainPixels(ct) ==
  IF ct = PNG_COLOR_TYPE_RGB_ALPHA  THEN { <<255, 0, 0, 255>>, <<1, 2, 3, 128>> }
  ELSE IF ct = PNG_COLOR_TYPE_RGB   THEN { <<255, 0, 0>>, <<255, 0, 255>> }
  ELSE IF ct = PNG_COLOR_TYPE_GRAY_ALPHA THEN { <<7, 255>>, <<7, 0>> }
  ELSE IF ct = PNG_COLOR_TYPE_GRAY  THEN { <<7>>, <<0>> }
  ELSE { <<0>>, <<1>> }

SamplesPerPixel(ct) ==
  IF ct = PNG_COLOR_TYPE_RGB_ALPHA THEN 4
  ELSE IF ct = PNG_COLOR_TYPE_RGB THEN 3
  ELSE IF ct = PNG_COLOR_TYPE_GRAY_ALPHA THEN 2
  ELSE 1

RECURSIVE RowContents(_, _)
RowContents(ct, w) ==
  IF w = 0 THEN { <<>> }
  ELSE { p \o r : p \in DomainPixels(ct), r \in RowContents(ct, w - 1) }

\* png_color_16 values a tRNS chunk can declare; null = the NULL pointer
Color16(r, g, b, k) == [null |-> FALSE, red |-> r, green |-> g, blue |-> b, gray |-> k]
NullColor == [null |-> TRUE, red |-> 0, green |-> 0, blue |-> 0, gray |-> 0]
TransColors == { Color16(255, 0, 0, 7), Color16(255, 0, 255, 0) }

\* alpha values a tRNS chunk can list
TransAlphas == {0, 128, 255}

RECURSIVE SeqsUpTo(_, _)
SeqsUpTo(S, n) ==
  IF n = 0 THEN { <<>> }
  ELSE SeqsUpTo(S, n - 1) \cup
       { Append(s, e) : s \in { t \in SeqsUpTo(S, n - 1) : Len(t) = n - 1 }, e \in S }

\* unknown chunks: tag ("abcd", "wxyz" as character codes), placement
\* (PNG_HAVE_IHDR = 1, PNG_AFTER_IDAT = 8), payload
Chunks ==
  { [name |-> <<97, 98, 99, 100>>, location |-> 1, data |-> <<1, 2, 3>>],
    [name |-> <<119, 120, 121, 122>>, location |-> 8, data |-> <<>>] }

\* ------------------------------------------------------- pixel conversion
\* onLoad, one pixel of row `src` at column x (0-based), per colour type.
LoadPixelRGBA(src, x) ==
  [r |-> src[4*x + 1], g |-> src[4*x + 2], b |-> src[4*x + 3], a |-> src[4*x + 4]]

LoadMatchRGB(src, x, tc) ==
  /\ ~tc.null
  /\ src[3*x + 1] = tc.red
  /\ src[3*x + 2] = tc.green
  /\ src[3*x + 3] = tc.blue

LoadPixelRGB(src, x, tc) ==
  [r |-> src[3*x + 1], g |-> src[3*x + 2], b |-> src[3*x + 3],
   a |-> IF LoadMatchRGB(src, x, tc) THEN 0 ELSE 255]

LoadPixelGrayA(src, x) == [k |-> src[2*x + 1], a |-> src[2*x + 2]]

LoadMatchGray(src, x, tc) == ~tc.null /\ src[x + 1] = tc.gray

LoadPixelGray(src, x, tc) ==
  [k |-> src[x + 1], a |-> IF LoadMatchGray(src, x, tc) THEN 0 ELSE 255]

LoadPixelIndexed(src, x) == [i |-> src[x + 1]]

LoadPixel(ct, src, x, tc) ==
  IF ct = PNG_COLOR_TYPE_RGB_ALPHA THEN LoadPixelRGBA(src, x)
  ELSE IF ct = PNG_COLOR_TYPE_RGB THEN LoadPixelRGB(src, x, tc)
  ELSE IF ct = PNG_COLOR_TYPE_GRAY_ALPHA THEN LoadPixelGrayA(src, x)
  ELSE IF ct = PNG_COLOR_TYPE_GRAY THEN LoadPixelGray(src, x, tc)
  ELSE LoadPixelIndexed(src, x)

\* one row of the conversion loop
LoadRow(ct, src, w, tc) == [x1 \in 1..w |-> LoadPixel(ct, src, x1 - 1, tc)]

\* the row sets sequenceSetHasAlpha(true) when a pixel matches the transparent colour
LoadRowSetsAlpha(ct, src, w, tc) ==
  \/ ct = PNG_COLOR_TYPE_RGB  /\ \E x \in 0..(w - 1) : LoadMatchRGB(src, x, tc)
  \/ ct = PNG_COLOR_TYPE_GRAY /\ \E x \in 0..(w - 1) : LoadMatchGray(src, x, tc)

\* ------------------------------------------- palette transparency (tRNS)
\* The loop over the tRNS alphas: st.calls are the sequenceSetAlpha calls,
\* st.mask is mask_entry, st.alpha tells whether sequenceSetHasAlpha(true) ran.
\* mutant: the last fully transparent entry wins
LastMask(mask, i, a) == IF a = 0 THEN i ELSE mask
FirstMask(mask, i, a) == IF a = 0 /\ mask < 0 THEN i ELSE mask

RECURSIVE TransLoop(_, _, _)
TransLoop(alphas, i, st) ==
  IF i >= Len(alphas) THEN st
  ELSE TransLoop(alphas, i + 1,
         [calls |-> Append(st.calls, <<i, alphas[i + 1]>>),
          alpha |-> st.alpha \/ alphas[i + 1] < 255,
          mask  |-> IF alphas[i + 1] < 255
                      THEN FirstMask(st.mask, i, alphas[i + 1])
                      ELSE st.mask])

TransStart == [calls |-> <<>>, alpha |-> FALSE, mask |-> -1]

\* ----------------------------------------------------------- colour spaces
\* A float as the quotient num/den of two integers; den = 0 is what float
\* division by 0.0f gives (infinity).
Quotient(n, d) == [num |-> n, den |-> d]

\* png_fixtof(x) = ((float)x) * 0.00001f
png_fixtof(x) == Quotient(x, 100000)

\* 1.0f / q
Reciprocal(q) == Quotient(q.den, q.num)

\* gfx::ColorSpace values by the Make function that builds them; g is the
\* transfer-function exponent where the function takes one
NoColorSpace(k)      == [kind |-> k, g |-> Quotient(0, 0)]
MakeICC              == NoColorSpace("ICC")
MakeSRGB             == NoColorSpace("sRGB")
MakeRGB(g)           == [kind |-> "RGB", g |-> g]
MakeRGBWithSRGBGamma == NoColorSpace("RGBWithSRGBGamma")
MakeSRGBWithGamma(g) == [kind |-> "SRGBWithGamma", g |-> g]
MakeNone             == NoColorSpace("None")
nullptr              == NoColorSpace("null")

\* What the domain reports about the colour-space chunks of the file:
\* png_get_iCCP, png_get_valid(sRGB), png_get_cHRM_fixed, png_get_gAMA_fixed,
\* and the gAMA value the last one writes through its pointer argument.
NoChunks == [read |-> FALSE, iCCP |-> FALSE, sRGB |-> FALSE, cHRM |-> FALSE,
             gAMA |-> FALSE, invGamma |-> 0]
FileGammas == {45455, 100000}
ColorSpaceChunks ==
  { ch \in [read : {TRUE}, iCCP : BOOLEAN, sRGB : BOOLEAN, cHRM : BOOLEAN,
            gAMA : BOOLEAN, invGamma : FileGammas \cup {0}] :
      ch.gAMA <=> ch.invGamma # 0 }

Max(S) == CHOOSE m \in S : \A n \in S : n <= m

\* bytes a callback verified behind the pointer the domain gave it, bytes
\* the domain declared, bytes the callback copied through it; no call yet
NoAccess == [verified |-> 0, declared |-> 0, copied |-> 0]

\* no png_read_rows call yet
NoRow == [pass |-> -1, y |-> -1]

NoFlags == [hasGamma |-> FALSE, hasPrimaries |-> FALSE]

\* ------------------------------------------------------------------- Init
Init ==
  /\ pc = "idle" /\ op = "none" /\ ret = "none" /\ path = "none"
  /\ heap = {} /\ nMalloc = 0 /\ nFree = 0 /\ nBadFree = 0
  /\ reg = [r \in Handles |-> 0] /\ unreg = [r \in Handles |-> 0]
  /\ fopError = "" /\ pngError = ""
  /\ inDomain = "none" /\ reads = 0 /\ opts = <<>>
  /\ color_type = 0 /\ width = 0 /\ height = 0 /\ number_passes = 0
  /\ pass = 0 /\ y = 0
  /\ stopFlag = FALSE /\ readAfterStop = FALSE
  /\ hasAlpha = FALSE
  /\ trnsDeclared = FALSE /\ trnsColor = NullColor /\ png_trans_color = NullColor
  /\ plteRead = FALSE /\ trans = <<>> /\ alphaCalls = <<>>
  /\ transparentColor = 0
  /\ rowbuf = <<>> /\ imageRow = <<>>
  /\ docChunks = <<>> /\ unknowns = <<>> /\ handedChunks = <<>>
  /\ pixelFormat = "none" /\ needAlpha = FALSE /\ fix_one_alpha_pixel = FALSE
  /\ csType = "None" /\ colorSpace = NoColorSpace("unset")
  /\ csFlags = NoFlags /\ csCalls = <<>>
  /\ palAlpha = <<>> /\ bgLayer = "unread" /\ tRNSSet = FALSE /\ fileTrans = <<>>
  /\ csChunks = NoChunks /\ spriteColorSpace = NoColorSpace("unread")
  /\ embeddedProfile = FALSE
  /\ imageRequested = FALSE /\ rowReadIssued = FALSE
  /\ mainPc = "start" /\ domain = "none" /\ nCreate = 0 /\ nDestroy = 0
  /\ guard = "none"
  /\ compromised = FALSE
  /\ imageWidth = 0 /\ imageHeight = 0 /\ numRowBytes = 0
  /\ ioAccess = NoAccess /\ chunkAccess = NoAccess
  /\ lastRowRead = NoRow /\ progress = Quotient(0, 1) /\ nWriteRow = 0
  /\ regOrder = <<>> /\ unregOrder = <<>>
  /\ nColors = 0 /\ num_palette = 0 /\ colorCalls = <<>>

\* ------------------------------------------------------ heap operations
\* malloc_in_sandbox for each buffer of `bs`
MallocAll(bs) ==
  /\ heap' = heap \cup bs
  /\ nMalloc' = nMalloc + Cardinality(bs)

\* malloc_in_sandbox for `bs`, then free_in_sandbox for each buffer of `fs`
MallocFree(bs, fs) ==
  /\ heap' = (heap \cup bs) \ fs
  /\ nMalloc' = nMalloc + Cardinality(bs)
  /\ nFree' = nFree + Cardinality(fs)
  /\ nBadFree' = nBadFree + Cardinality(fs \ (heap \cup bs))

\* mutant: the return statement falls through to the palette block
ReturnFallsThrough(value, which) ==
  /\ pc' = "palette" /\ ret' = value /\ path' = which
\* return statement of onLoad / onSave
Return(value, which) ==
  /\ pc' = "done" /\ ret' = value /\ path' = which

\* ---------------------------------------------------------------- app_main
\* What a failed load of the domain's module does to the process: fatal
\* (DomainInitError), nothing of app_main runs after it.
\* mutant: the failure is ignored and app_main goes on
CreateSandboxFailureIgnored == "try"
CreateSandboxFailure == "aborted"

\* create_sandbox(), the first call of app_main, before its try block
app_main_create_sandbox ==
  /\ mainPc = "start"
  /\ nCreate' = nCreate + 1
  /\ \E loaded \in BOOLEAN :
       IF loaded THEN domain' = "created" /\ mainPc' = "try"
                 ELSE domain' = "failed" /\ mainPc' = CreateSandboxFailure
  /\ UNCHANGED <<pc, op, ret, path, resVars, errVars, inDomain, reads, opts,
                 hdrVars, loopVars, stopVars, hasAlpha, trnsVars, pixVars,
                 saveVars, pixelFormat, csVars, callVars, nDestroy, guard>>
  /\ UNCHANGED extVars

\* app.run() is where the file operations run: inside the try block, after
\* create_sandbox()
CodecCallable == mainPc = "try"

\* the scope of an encoder guard is left before app_main is
GuardAlive == guard \in {"alive_true", "alive_false"}

\* return (app.isGui() ? 0 : code): the normal exit of app_main
app_main_return ==
  /\ mainPc = "try" /\ ~GuardAlive
  /\ pc = "idle" \/ (pc = "done" /\ ret \in {"true", "false"})
  /\ mainPc' = "returned"
  /\ UNCHANGED <<pc, op, ret, path, resVars, errVars, inDomain, reads, opts,
                 hdrVars, loopVars, stopVars, hasAlpha, trnsVars, pixVars,
                 saveVars, pixelFormat, csVars, callVars, domain, nCreate,
                 nDestroy, guard>>
  /\ UNCHANGED extVars

\* catch (std::exception& e) { ...; return 1; }: an exception thrown by the
\* application, or one a file operation threw, reaches app_main
app_main_catch ==
  /\ mainPc = "try" /\ ~GuardAlive
  /\ pc = "idle" \/ (pc = "done" /\ ret = "threw")
  /\ mainPc' = "caught"
  /\ UNCHANGED <<pc, op, ret, path, resVars, errVars, inDomain, reads, opts,
                 hdrVars, loopVars, stopVars, hasAlpha, trnsVars, pixVars,
                 saveVars, pixelFormat, csVars, callVars, domain, nCreate,
                 nDestroy, guard>>
  /\ UNCHANGED extVars

app_main == app_main_create_sandbox \/ app_main_return \/ app_main_catch

\* ------------------------------------------------- PngEncoderOneAlphaPixel
\* PngEncoderOneAlphaPixel::PngEncoderOneAlphaPixel(bool state), by the
\* caller of an encode
PngEncoderOneAlphaPixel_ctor ==
  /\ CodecCallable /\ pc = "idle" /\ guard = "none"
  /\ \E state \in BOOLEAN :
       /\ fix_one_alpha_pixel' = state
       /\ guard' = IF state THEN "alive_true" ELSE "alive_false"
  /\ UNCHANGED <<pc, op, ret, path, resVars, errVars, inDomain, reads, opts,
                 hdrVars, loopVars, stopVars, hasAlpha, trnsVars, pixVars,
                 docChunks, unknowns, handedChunks, needAlpha, csType, scsVars,
                 palVars,
                 pixelFormat, csVars, callVars, mainPc, domain, nCreate, nDestroy>>
  /\ UNCHANGED extVars

\* what the destructor leaves in the flag
\* mutant: the destructor restores nothing
GuardDestroyedKeeps(flag) == flag
GuardDestroyed(flag) == FALSE

\* PngEncoderOneAlphaPixel::~PngEncoderOneAlphaPixel(): the guard's scope is
\* left, by the end of the block or by an exception passing through it
PngEncoderOneAlphaPixel_dtor ==
  /\ GuardAlive
  /\ pc = "idle" \/ (pc = "done" /\ ret \in {"true", "false", "threw"})
  /\ fix_one_alpha_pixel' = GuardDestroyed(fix_one_alpha_pixel)
  /\ guard' = "destroyed"
  /\ UNCHANGED <<pc, op, ret, path, resVars, errVars, inDomain, reads, opts,
                 hdrVars, loopVars, stopVars, hasAlpha, trnsVars, pixVars,
                 docChunks, unknowns, handedChunks, needAlpha, csType, scsVars,
                 palVars,
                 pixelFormat, csVars, callVars, mainPc, domain, nCreate, nDestroy>>
  /\ UNCHANGED extVars

PngEncoderOneAlphaPixel ==
  PngEncoderOneAlphaPixel_ctor \/ PngEncoderOneAlphaPixel_dtor

\* ------------------------------------------------------------------ onLoad
\* FileHandle handle(open_file_with_exception(fop->filename(), "rb"))
onLoad_open ==
  /\ pc = "idle" /\ CodecCallable /\ guard = "none"
  /\ op' = "load"
  /\ \E opened \in BOOLEAN :
       IF opened THEN pc' = "create_read_struct" /\ UNCHANGED <<ret, path>>
       ELSE Return("threw", "open")
  /\ UNCHANGED <<resVars, errVars, inDomain, reads, opts, hdrVars, loopVars,
                 stopVars, hasAlpha, trnsVars, pixVars,
                 saveVars, pixelFormat, csVars, callVars>>
  /\ UNCHANGED procVars
  /\ UNCHANGED extVars

\* sbLibVer, register_callback(png_user_chunk), png_create_read_struct
onLoad_create_read_struct ==
  /\ pc = "create_read_struct"
  /\ MallocAll({Buf("sbLibVer")})
  /\ \E png \in BOOLEAN :
       IF png
         THEN /\ pc' = "create_info_struct"
              /\ reg' = RegisterAll(reg, {"userChunkCb"})
              /\ UNCHANGED <<ret, path, unreg, unregOrder, fopError>>
         ELSE /\ fopError' = "png_create_read_struct"
              /\ reg' = RegisterAll(reg, {"userChunkCb"})
              /\ unreg' = UnregisterAll(unreg, TeardownPngNull)
              /\ unregOrder' = unregOrder \o TeardownPngNull
              /\ Return("false", "png_null")
  /\ UNCHANGED <<op, nFree, nBadFree, pngError, inDomain, reads, opts, hdrVars,
                 loopVars, stopVars, hasAlpha, trnsVars,
                 pixVars, saveVars, pixelFormat, csVars, callVars>>
  /\ UNCHANGED procVars
  /\ regOrder' = regOrder \o <<"userChunkCb">>
  /\ UNCHANGED <<boundVars, accessVars, progVars, plteVars>>

\* sdf, get_app_pointer(&opts), png_set_read_user_chunk_fn, png_create_info_struct
onLoad_create_info_struct ==
  /\ pc = "create_info_struct"
  /\ MallocAll({Buf("sdf")})
  /\ reg' = RegisterAll(reg, {"optsPtr"})
  /\ \E info \in BOOLEAN :
       IF info
         THEN /\ pc' = "set_read_fn"
              /\ UNCHANGED <<ret, path, unreg, unregOrder, fopError>>
         ELSE /\ fopError' = "png_create_info_struct"
              /\ unreg' = UnregisterAll(unreg, TeardownInfoNull)
              /\ unregOrder' = unregOrder \o TeardownInfoNull
              /\ Return("false", "info_null")
  /\ UNCHANGED <<op, nFree, nBadFree, pngError, inDomain, reads, opts, hdrVars,
                 loopVars, stopVars, hasAlpha, trnsVars,
                 pixVars, saveVars, pixelFormat, csVars, callVars>>
  /\ UNCHANGED procVars
  /\ regOrder' = regOrder \o <<"optsPtr">>
  /\ UNCHANGED <<boundVars, accessVars, progVars, plteVars>>

\* mutant: png_read_info is called before the FILE token is created
ReadHandlesNoToken == {"readDataCb"}
\* what onLoad registers for the read callback before it calls png_read_info:
\* the token of the FILE and the callback
ReadHandles == {"appPtr", "readDataCb"}

\* get_app_pointer(fp), register_callback(read_data_fn), png_set_read_fn,
\* png_set_sig_bytes, and the call of png_read_info
onLoad_read_info ==
  /\ pc = "set_read_fn"
  /\ reg' = RegisterAll(reg, ReadHandles)
  /\ inDomain' = "png_read_info"
  /\ reads' = 0
  /\ pc' = "read_info"
  /\ UNCHANGED <<op, ret, path, heap, nMalloc, nFree, nBadFree, unreg, errVars,
                 opts, hdrVars, loopVars, stopVars, hasAlpha, trnsVars,
                 pixVars, saveVars, pixelFormat, csVars, callVars>>
  /\ UNCHANGED procVars
  /\ regOrder' = regOrder \o <<"appPtr", "readDataCb">>
  /\ UNCHANGED <<boundVars, accessVars, progVars, unregOrder, plteVars>>

\* sizes the domain asks read_data_fn for
ReadSizes == {1, 2}

\* tainted_png_byte.unverified_safe_pointer_because(1, ...): the length the
\* read handler verifies behind the pointer, whatever size is asked for
ReadVerifiedLength(size) == 1

\* unwrapUnknown->data is read as the domain wrote it: no length of the
\* payload is verified (the struct itself is, for one element)
ChunkDataVerifiedLength(size) == 0

\* The read callback.  fread returns `result`; when it is short the handler
\* allocates the message and calls png_error, which does not return: no
\* error function and no setjmp are installed, so libpng aborts the process.
read_data_fn ==
  /\ inDomain \in {"png_read_info", "png_read_rows"}
  /\ reads < MaxReads
  /\ reg["appPtr"] > unreg["appPtr"]
  /\ \E uwrSize \in ReadSizes, result \in 0..Max(ReadSizes) :
       /\ result <= uwrSize
       /\ ioAccess' = [verified |-> ReadVerifiedLength(uwrSize),
                       declared |-> uwrSize, copied |-> result]
       /\ IF result # uwrSize
            THEN /\ MallocAll({Buf("tainted_msg")})
                 /\ pngError' = "read error in read_data_memory"
                 /\ inDomain' = "none"
                 /\ Return("aborted", "png_error")
                 /\ UNCHANGED reads
            ELSE /\ reads' = reads + 1
                 /\ UNCHANGED <<pc, ret, path, heap, nMalloc, pngError, inDomain>>
  /\ UNCHANGED <<op, nFree, nBadFree, reg, unreg, fopError, opts, hdrVars,
                 loopVars, stopVars, hasAlpha, trnsVars,
                 pixVars, saveVars, pixelFormat, csVars, callVars>>
  /\ UNCHANGED procVars
  /\ UNCHANGED <<boundVars, chunkAccess, progVars, orderVars, plteVars>>

\* The chunk observer: copies location, name and data into a PngOptions::Chunk
png_user_chunk ==
  /\ inDomain = "png_read_info"
  /\ Len(opts) < MaxChunks
  /\ reg["optsPtr"] > unreg["optsPtr"]
  /\ \E unknown \in Chunks :
       /\ opts' = Append(opts, [location |-> unknown.location,
                                name |-> unknown.name,
                                data |-> unknown.data])
       /\ chunkAccess' = [verified |-> ChunkDataVerifiedLength(Len(unknown.data)),
                          declared |-> Len(unknown.data),
                          copied   |-> Len(unknown.data)]
  /\ UNCHANGED <<pc, op, ret, path, resVars, errVars, inDomain, reads, hdrVars,
                 loopVars, stopVars, hasAlpha, trnsVars,
                 pixVars, saveVars, pixelFormat, csVars, callVars>>
  /\ UNCHANGED procVars
  /\ UNCHANGED <<boundVars, ioAccess, progVars, orderVars, plteVars>>

PixelFormatOf(ct) ==
  IF ct \in {PNG_COLOR_TYPE_RGB_ALPHA, PNG_COLOR_TYPE_RGB} THEN "IMAGE_RGB"
  ELSE IF ct \in {PNG_COLOR_TYPE_GRAY_ALPHA, PNG_COLOR_TYPE_GRAY} THEN "IMAGE_GRAYSCALE"
  ELSE "IMAGE_INDEXED"

\* png_read_info returns; png_get_IHDR, the transformations,
\* png_set_interlace_handling, png_read_update_info, switch (color_type)
onLoad_header ==
  /\ pc = "read_info" /\ inDomain = "png_read_info"
  /\ inDomain' = "none"
  /\ ioAccess' = NoAccess
  /\ MallocAll(Bufs({"sb_width", "sb_height", "sb_bit_depth", "sb_color_type",
                     "sb_interlace_type"}))
  /\ \E ct \in HeaderColorTypes, w \in 1..MaxWidth, h \in 1..MaxHeight,
        n \in 1..MaxPasses :
       /\ color_type' = ct /\ width' = w /\ height' = h /\ number_passes' = n
       /\ IF ct \in SupportedColorTypes
            THEN /\ pixelFormat' = PixelFormatOf(ct)
                 /\ hasAlpha' = (hasAlpha \/ ct \in {PNG_COLOR_TYPE_RGB_ALPHA,
                                                     PNG_COLOR_TYPE_GRAY_ALPHA})
                 /\ pc' = "sequence_image"
                 /\ UNCHANGED <<ret, path, unreg, unregOrder, fopError>>
            ELSE /\ fopError' = "Color type not supported"
                 /\ unreg' = UnregisterAll(unreg, TeardownColorType)
                 /\ unregOrder' = unregOrder \o TeardownColorType
                 /\ Return("false", "color_type")
                 /\ UNCHANGED <<pixelFormat, hasAlpha>>
  /\ UNCHANGED <<op, nFree, nBadFree, reg, pngError, reads, opts, loopVars,
                 stopVars, trnsVars, pixVars, saveVars,
                 csVars, callVars>>
  /\ UNCHANGED procVars
  /\ UNCHANGED <<boundVars, chunkAccess, progVars, regOrder, plteVars>>

\* sprite->transparentColor() of the sprite an image of this pixel format
\* belongs to; only the palette code reads it
SpriteTransparentColors(format) ==
  IF format = "IMAGE_INDEXED" THEN {0, 1} ELSE {0}

\* The file takes control of the codec while png_read_info parses it: what
\* the domain reports from then on is chosen by the file.
codec_compromised ==
  /\ inDomain = "png_read_info" /\ ~compromised
  /\ compromised' = TRUE
  /\ UNCHANGED <<pc, op, ret, path, resVars, errVars, inDomain, reads, opts,
                 hdrVars, loopVars, stopVars, hasAlpha, trnsVars, pixVars,
                 saveVars, pixelFormat, csVars, callVars>>
  /\ UNCHANGED procVars
  /\ UNCHANGED <<imageWidth, imageHeight, numRowBytes, accessVars, progVars,
                 orderVars, plteVars>>

\* what png_get_image_width and png_get_image_height return for a header
\* of w x h: libpng returns the header's values, a compromised codec any
ImageSizes(w, h, hostile) ==
  IF hostile THEN (1..MaxWidth) \X (1..MaxHeight) ELSE { <<w, h>> }

\* png_get_image_width / height, fop->sequenceImage(...): from here on the
\* sprite of the sequence exists
onLoad_sequenceImage ==
  /\ pc = "sequence_image"
  /\ imageRequested' = TRUE
  /\ \E size \in ImageSizes(width, height, compromised) :
       imageWidth' = size[1] /\ imageHeight' = size[2]
  /\ transparentColor' \in SpriteTransparentColors(pixelFormat)
  /\ \E img \in BOOLEAN :
       IF img
         THEN /\ pc' = "palette"
              /\ UNCHANGED <<ret, path, unreg, unregOrder, fopError>>
         ELSE /\ fopError' = "file_sequence_image"
              /\ unreg' = UnregisterAll(unreg, TeardownNoImage)
              /\ unregOrder' = unregOrder \o TeardownNoImage
              /\ Return("false", "image_null")
  /\ UNCHANGED <<op, heap, nMalloc, nFree, nBadFree, reg, pngError, inDomain,
                 reads, opts, hdrVars, loopVars, stopVars, hasAlpha,
                 trnsDeclared, trnsColor, png_trans_color, plteRead, trans,
                 alphaCalls,
                 pixVars, saveVars, pixelFormat, csVars, rowReadIssued>>
  /\ UNCHANGED procVars
  /\ UNCHANGED <<compromised, numRowBytes, accessVars, progVars, regOrder,
                 plteVars>>

\* What a read through a pointer cell of the sandbox heap yields when the
\* sandbox never wrote the cell: malloc_in_sandbox does not initialise it.
UninitColor16 == {NullColor} \cup TransColors
UninitTrans == SeqsUpTo(TransAlphas, MaxTrans)

\* entry c of the palette the domain's png_get_PLTE points at
DomainPalette(c) == [red |-> (10 + c) % 256, green |-> (20 + c) % 256,
                     blue |-> (30 + c) % 256]

\* *sb_num_palette: libpng reports the entries of the PLTE chunk, a
\* compromised codec also more than a PNG palette holds
DomainPaletteCounts(hostile) ==
  IF hostile THEN (1..MaxColors) \cup {PNG_MAX_PALETTE_LENGTH + 1}
             ELSE 1..MaxColors

\* for (c = 0; c < num_palette; ++c) sequenceSetColor(c, palette[c]...)
SetColorCalls(n) ==
  [c1 \in 1..n |-> [index |-> c1 - 1, color |-> DomainPalette(c1 - 1)]]

\* png_trans_color_ptr, sb_palette, sb_num_palette; the palette and its
\* tRNS alphas, or else the transparent colour
onLoad_palette ==
  /\ pc = "palette"
  /\ \E plte \in BOOLEAN, declared \in BOOLEAN :
       IF color_type = PNG_COLOR_TYPE_PALETTE /\ plte
         THEN \E read \in (IF declared THEN SeqsUpTo(TransAlphas, MaxTrans)
                                         ELSE UninitTrans) :
                LET st == TransLoop(read, 0, TransStart) IN
                /\ MallocAll(Bufs({"png_trans_color_ptr", "sb_palette",
                                   "sb_num_palette", "num_trans_ptr", "trans_ptr"}))
                /\ plteRead' = TRUE
                /\ \E n \in DomainPaletteCounts(compromised) :
                     /\ num_palette' = n /\ nColors' = n
                     /\ colorCalls' = SetColorCalls(n)
                /\ trnsDeclared' = declared
                /\ trans' = read
                /\ alphaCalls' = st.calls
                /\ hasAlpha' = (hasAlpha \/ st.alpha)
                /\ transparentColor' = IF st.mask >= 0 THEN st.mask ELSE transparentColor
                /\ UNCHANGED <<trnsColor, png_trans_color>>
         ELSE \E c \in TransColors :
              \E read \in (IF declared THEN {c} ELSE UninitColor16) :
                /\ declared \/ c = CHOOSE c0 \in TransColors : TRUE
                /\ MallocAll(Bufs({"png_trans_color_ptr", "sb_palette",
                                   "sb_num_palette"}))
                /\ trnsDeclared' = declared
                /\ trnsColor' = IF declared THEN c ELSE NullColor
                /\ png_trans_color' = read
                /\ UNCHANGED <<plteRead, trans, alphaCalls, hasAlpha,
                               transparentColor, plteVars>>
  /\ pc' = "alloc_rows"
  /\ UNCHANGED <<op, ret, path, nFree, nBadFree, reg, unreg, errVars, inDomain,
                 reads, opts, hdrVars, loopVars, stopVars,
                 pixVars, saveVars, pixelFormat, csVars, callVars>>
  /\ UNCHANGED procVars
  /\ UNCHANGED <<boundVars, accessVars, progVars, orderVars>>

\* bytes of a row of w pixels after the transformations onLoad sets up
\* (8-bit samples), and what png_get_rowbytes returns for it
RowBytes(ct, w) == w * SamplesPerPixel(ct)
DomainRowBytes(ct, w, hostile) ==
  IF hostile THEN {1, RowBytes(ct, w)} ELSE {RowBytes(ct, w)}

\* mutant: only the buffer of the first row is allocated up front
RowBuffersFirstOnly(h) == {RowBuf(0)}
\* the row buffers the allocation loop creates: one per row 0..h-1
RowBuffers(h) == {RowBuf(r) : r \in 0..(h - 1)}

\* rows_pointer and one row buffer per row of the header's height.  The
\* locals of the palette block (trans, num_trans) are out of scope here.
onLoad_alloc_rows ==
  /\ pc = "alloc_rows"
  /\ MallocAll({Buf("rows_pointer")} \cup RowBuffers(height))
  /\ numRowBytes' \in DomainRowBytes(color_type, width, compromised)
  /\ pass' = 0 /\ y' = 0
  /\ pc' = "read_rows"
  /\ trans' = <<>> /\ alphaCalls' = <<>>
  /\ nColors' = 0 /\ num_palette' = 0 /\ colorCalls' = <<>>
  /\ UNCHANGED <<op, ret, path, nFree, nBadFree, reg, unreg, errVars, inDomain,
                 reads, opts, hdrVars, stopVars, hasAlpha, trnsDeclared,
                 trnsColor, png_trans_color, plteRead, transparentColor,
                 pixVars, saveVars, pixelFormat, csVars, callVars>>
  /\ UNCHANGED procVars
  /\ UNCHANGED <<compromised, imageWidth, imageHeight, accessVars, progVars,
                 orderVars>>

\* png_read_rows(png, rows_pointer+y, nullptr, 1) is called
onLoad_png_read_rows ==
  /\ pc = "read_rows" /\ inDomain = "none"
  /\ pass < number_passes /\ y < height
  /\ inDomain' = "png_read_rows"
  /\ reads' = 0
  /\ readAfterStop' = (readAfterStop \/ stopFlag)
  /\ rowReadIssued' = TRUE
  /\ lastRowRead' = [pass |-> pass, y |-> y]
  /\ UNCHANGED <<pc, op, ret, path, resVars, errVars, opts, hdrVars, loopVars,
                 stopFlag, hasAlpha, trnsVars,
                 pixVars, saveVars, pixelFormat, csVars, imageRequested>>
  /\ UNCHANGED procVars
  /\ UNCHANGED <<boundVars, accessVars, progress, nWriteRow, orderVars,
                 plteVars>>

\* arithmetic on quotients, as the double expressions compute it
QuotientSum(a, b) == Quotient(a.num * b.den + b.num * a.den, a.den * b.den)
QuotientDiv(a, b) == Quotient(a.num * b.den, a.den * b.num)
QuotientLeq(a, b) == a.num * b.den <= b.num * a.den

\* mutant: the row just read is not counted
LoadProgressBefore(p, row, h, n) ==
  QuotientDiv(QuotientSum(Quotient(p, 1), Quotient(row, h)), Quotient(n, 1))
\* ((double)pass + (double)(y+1) / (double)(height)) / (double)number_passes
LoadProgress(p, row, h, n) ==
  QuotientDiv(QuotientSum(Quotient(p, 1), Quotient(row + 1, h)), Quotient(n, 1))

\* mutant: the row loop does not advance
AfterRowAgain(p, row, stop) ==
  IF stop \/ row + 1 >= height
    THEN [pass |-> p + 1, y |-> 0, out |-> p + 1 >= number_passes]
    ELSE [pass |-> p, y |-> row, out |-> FALSE]
\* Where the two loops stand after the body for (pass, y): `stop` is what
\* isStop() returned.  break leaves the row loop only.
AfterRow(p, row, stop) ==
  IF stop \/ row + 1 >= height
    THEN [pass |-> p + 1, y |-> 0, out |-> p + 1 >= number_passes]
    ELSE [pass |-> p, y |-> row + 1, out |-> FALSE]

\* png_read_rows returns; fop->setProgress(...); if (fop->isStop()) break
onLoad_row_done ==
  /\ pc = "read_rows" /\ inDomain = "png_read_rows"
  /\ inDomain' = "none"
  /\ ioAccess' = NoAccess
  /\ progress' = LoadProgress(pass, y, height, number_passes)
  /\ \E requested \in BOOLEAN :
       LET stop == stopFlag \/ requested
           next == AfterRow(pass, y, stop) IN
       /\ stopFlag' = stop
       /\ pass' = next.pass /\ y' = next.y
       /\ pc' = IF next.out THEN "convert" ELSE "read_rows"
  /\ UNCHANGED <<op, ret, path, resVars, errVars, reads, opts, hdrVars,
                 readAfterStop, hasAlpha, trnsVars,
                 pixVars, saveVars, pixelFormat, csVars, callVars>>
  /\ UNCHANGED procVars
  /\ UNCHANGED <<boundVars, chunkAccess, lastRowRead, nWriteRow, orderVars,
                 plteVars>>

\* buffers an iteration of the conversion loop frees after row `row`
\* mutant: the last row buffer is not freed
ConvertFreesButLast(row, h) ==
  IF row + 1 >= h THEN {} ELSE {RowBuf(row)}
ConvertFrees(row, h) == {RowBuf(row)}

\* One iteration of "Convert rows_pointer into the doc::Image": row y.  The
\* bytes of the row buffer are whatever the sandbox left there (or what
\* malloc left there, when the row was never read).  Rows are converted
\* independently and never read back, so the state keeps the last one.
\* The row loops are over: nothing reports progress or reads a row from here
\* on, and what they last read and reported leaves the state.
onLoad_convert_row ==
  /\ pc = "convert" /\ y < height
  /\ \E src \in RowContents(color_type, width) :
       /\ rowbuf' = src
       /\ imageRow' = LoadRow(color_type, src, width, png_trans_color)
       /\ hasAlpha' = (hasAlpha \/ LoadRowSetsAlpha(color_type, src, width, png_trans_color))
  /\ MallocFree({}, ConvertFrees(y, height))
  /\ y' = y + 1
  /\ UNCHANGED <<pc, op, ret, path, reg, unreg, errVars, inDomain, reads, opts,
                 hdrVars, pass, stopVars, trnsVars,
                 saveVars, pixelFormat, csVars, callVars>>
  /\ UNCHANGED procVars
  /\ lastRowRead' = NoRow /\ progress' = Quotient(0, 1)
  /\ UNCHANGED <<boundVars, accessVars, nWriteRow, orderVars, plteVars>>

\* sandbox.free_in_sandbox<png_bytep>(rows_pointer), after the loop.  The
\* locals of the loop body (unwrap_row_ptr, src_address, dst_address) are out
\* of scope here, and nothing reads the width any more.
onLoad_free_rows_pointer ==
  /\ pc = "convert" /\ y >= height
  /\ MallocFree({}, {Buf("rows_pointer")})
  /\ rowbuf' = <<>> /\ imageRow' = <<>>
  /\ width' = 0 /\ imageWidth' = 0 /\ imageHeight' = 0 /\ numRowBytes' = 0
  /\ pc' = "color_space"
  /\ UNCHANGED <<op, ret, path, reg, unreg, errVars, inDomain, reads, opts,
                 color_type, height, number_passes, loopVars, stopVars, hasAlpha, trnsVars,
                 saveVars, pixelFormat, csVars, callVars>>
  /\ UNCHANGED procVars
  /\ UNCHANGED <<compromised, accessVars, progVars, orderVars, plteVars>>

\* ------------------------------------------------------- loadColorSpace
IccBufs == Bufs({"tainted_profile", "tainted_length", "tainted_name",
                 "tainted_compression"})
ChrmBufs == Bufs({"tainted_wx", "tainted_wy", "tainted_rx", "tainted_ry",
                  "tainted_gx", "tainted_gy", "tainted_bx", "tainted_by"})
GammaBufs == Bufs({"tainted_invGamma"})

\* the local invGamma where the gamma-only branch uses it: initialised to 0
\* at its declaration and not assigned from tainted_invGamma on that path
InvGammaOfGammaOnly(chunks) == 0

\* the colour space loadColorSpace returns for the chunks of the file
ResolveColorSpace(chunks) ==
  IF chunks.iCCP THEN MakeICC
  ELSE IF chunks.sRGB THEN MakeSRGB
  ELSE IF chunks.cHRM
    THEN (IF chunks.gAMA THEN MakeRGB(Reciprocal(png_fixtof(chunks.invGamma)))
                         ELSE MakeRGBWithSRGBGamma)
  ELSE IF chunks.gAMA
    THEN MakeSRGBWithGamma(Reciprocal(png_fixtof(InvGammaOfGammaOnly(chunks))))
  ELSE nullptr

\* buffers loadColorSpace allocates / frees on the path the flags select
ColorSpaceMallocs(iCCP, sRGB) ==
  IF iCCP \/ sRGB THEN IccBufs ELSE IccBufs \cup ChrmBufs \cup GammaBufs

ColorSpaceFrees(iCCP, sRGB, cHRM, gAMA) ==
  IF iCCP \/ sRGB \/ cHRM \/ gAMA THEN {} ELSE IccBufs \cup ChrmBufs

\* colour spaces the sprite can have when the decode reaches its end
SpriteColorSpaces == {MakeNone, MakeSRGB}

\* auto colorSpace = PngFormat::loadColorSpace(png, info).  Neither
\* png_trans_color nor the tRNS chunk is read after the conversion loop.  The
\* sprite's colour space is read by the statements that follow; what it is
\* becomes known here.
onLoad_loadColorSpace ==
  /\ pc = "color_space"
  /\ \E chunks \in ColorSpaceChunks :
       /\ csChunks' = chunks
       /\ colorSpace' = ResolveColorSpace(chunks)
       /\ MallocFree(ColorSpaceMallocs(chunks.iCCP, chunks.sRGB),
                     ColorSpaceFrees(chunks.iCCP, chunks.sRGB, chunks.cHRM,
                                     chunks.gAMA))
  /\ spriteColorSpace' \in SpriteColorSpaces
  /\ trnsDeclared' = FALSE /\ trnsColor' = NullColor /\ png_trans_color' = NullColor
  /\ pc' = "finish"
  /\ UNCHANGED <<op, ret, path, reg, unreg, errVars, inDomain, reads, opts,
                 hdrVars, loopVars, stopVars, hasAlpha, plteRead, trans,
                 alphaCalls, transparentColor, pixVars,
                 saveVars, pixelFormat, embeddedProfile, callVars>>
  /\ UNCHANGED procVars
  /\ UNCHANGED extVars

\* if (colorSpace) setEmbeddedColorProfile(); else colorSpace = MakeSRGB();
\* if (colorSpace && sprite colour space type == None) setColorSpace(colorSpace)
\* mutant: the sprite's colour space is replaced whatever its type
SetupColorSpaceAlways(loaded, sprite) ==
  [embedded |-> loaded.kind # "null",
   sprite   |-> IF loaded.kind # "null" THEN loaded ELSE MakeSRGB]
SetupColorSpace(loaded, sprite) ==
  LET cs == IF loaded.kind # "null" THEN loaded ELSE MakeSRGB IN
  [embedded |-> loaded.kind # "null",
   sprite   |-> IF cs.kind # "null" /\ sprite.kind = "None" THEN cs ELSE sprite]

\* the colour space set-up, setLoadedFormatOptions, the four unregister
\* calls, return true.  Nothing looks at the chunks of the file after this.
onLoad_finish ==
  /\ pc = "finish"
  /\ LET setup == SetupColorSpace(colorSpace, spriteColorSpace) IN
       /\ embeddedProfile' = setup.embedded
       /\ spriteColorSpace' = setup.sprite
  /\ csChunks' = NoChunks
  /\ unreg' = UnregisterAll(unreg, TeardownSuccess)
  /\ Return("true", "success")
  /\ UNCHANGED <<op, heap, nMalloc, nFree, nBadFree, reg, errVars, inDomain,
                 reads, opts, hdrVars, loopVars, stopVars, hasAlpha, trnsVars,
                 pixVars, saveVars, pixelFormat, colorSpace, callVars>>
  /\ UNCHANGED procVars
  /\ unregOrder' = unregOrder \o TeardownSuccess
  /\ UNCHANGED <<boundVars, accessVars, progVars, regOrder, plteVars>>

onLoad ==
  \/ onLoad_open \/ onLoad_create_read_struct \/ onLoad_create_info_struct
  \/ onLoad_read_info \/ onLoad_header \/ onLoad_sequenceImage
  \/ onLoad_palette \/ onLoad_alloc_rows \/ onLoad_png_read_rows
  \/ onLoad_row_done \/ onLoad_convert_row \/ onLoad_free_rows_pointer
  \/ onLoad_loadColorSpace
  \/ onLoad_finish

\* ------------------------------------------------------------------ onSave
loadVars == <<inDomain, reads, opts, number_passes, pass, stopVars, hasAlpha,
              trnsVars, pixVars, csVars, callVars>>

\* FileHandle handle(open_file_with_exception_sync_on_close(..., "wb")).
\* fix_one_alpha_pixel is what the caller's PngEncoderOneAlphaPixel set, or
\* its initial false.
onSave_open ==
  /\ pc = "idle" /\ CodecCallable
  /\ op' = "save"
  /\ \E opened \in BOOLEAN :
       IF opened THEN pc' = "create_write_struct" /\ UNCHANGED <<ret, path>>
       ELSE Return("threw", "open")
  /\ UNCHANGED <<resVars, errVars, loadVars, color_type, width, height, y,
                 saveVars, pixelFormat>>
  /\ UNCHANGED procVars
  /\ UNCHANGED extVars

\* sbfp, sbLibVer, png_create_write_struct
onSave_create_write_struct ==
  /\ pc = "create_write_struct"
  /\ MallocAll(Bufs({"sbfp", "sbLibVer"}))
  /\ \E png \in BOOLEAN :
       IF png THEN pc' = "create_info_struct_w" /\ UNCHANGED <<ret, path>>
       ELSE Return("false", "png_null")
  /\ UNCHANGED <<op, nFree, nBadFree, reg, unreg, errVars, loadVars,
                 color_type, width, height, y, saveVars, pixelFormat>>
  /\ UNCHANGED procVars
  /\ UNCHANGED extVars

\* png_set_option, png_create_info_struct
onSave_create_info_struct ==
  /\ pc = "create_info_struct_w"
  /\ \E info \in BOOLEAN :
       IF info THEN pc' = "set_IHDR" /\ UNCHANGED <<ret, path>>
       ELSE Return("false", "info_null")
  /\ UNCHANGED <<op, resVars, errVars, loadVars, color_type, width, height, y,
                 saveVars, pixelFormat>>
  /\ UNCHANGED procVars
  /\ UNCHANGED extVars

\* switch (image->pixelFormat()) of onSave
\* mutant: the fix-up flag is not consulted
SaveColorTypeNoFix(format, alpha, fix) ==
  IF format = "IMAGE_RGB"
    THEN (IF alpha THEN PNG_COLOR_TYPE_RGB_ALPHA ELSE PNG_COLOR_TYPE_RGB)
  ELSE IF format = "IMAGE_GRAYSCALE"
    THEN (IF alpha THEN PNG_COLOR_TYPE_GRAY_ALPHA ELSE PNG_COLOR_TYPE_GRAY)
  ELSE PNG_COLOR_TYPE_PALETTE
SaveColorType(format, alpha, fix) ==
  IF format = "IMAGE_RGB"
    THEN (IF alpha \/ fix THEN PNG_COLOR_TYPE_RGB_ALPHA ELSE PNG_COLOR_TYPE_RGB)
  ELSE IF format = "IMAGE_GRAYSCALE"
    THEN (IF alpha \/ fix THEN PNG_COLOR_TYPE_GRAY_ALPHA ELSE PNG_COLOR_TYPE_GRAY)
  ELSE (IF fix THEN PNG_COLOR_TYPE_RGB_ALPHA ELSE PNG_COLOR_TYPE_PALETTE)

\* fop->sequenceGetNColors(): an empty palette, 1..MaxColors colours, and
\* one colour more than a PNG palette can hold; only an indexed image has
\* a palette
HostColorCounts(format) ==
  IF format = "IMAGE_INDEXED"
    THEN (0..MaxColors) \cup {PNG_MAX_PALETTE_LENGTH + 1}
    ELSE {0}

\* The stored alphas of the palette entries onSave asks for, as
\* sequenceGetAlpha reports them, for a palette of n colours.  Entry 0 of an
\* empty palette is asked for and so has an alpha here; entries past the
\* 256th are never asked for.  A long palette is opaque but for its 256th
\* entry.
HostPalettes(format, n) ==
  IF format # "IMAGE_INDEXED" THEN { <<>> }
  ELSE IF n = 0 THEN { <<a>> : a \in TransAlphas }
  ELSE IF n <= MaxColors
    THEN { a \in SeqsUpTo(TransAlphas, MaxColors) : Len(a) = n }
  ELSE { [c1 \in 1..PNG_MAX_PALETTE_LENGTH |->
            IF c1 = PNG_MAX_PALETTE_LENGTH THEN a ELSE 255] : a \in {0, 255} }

\* png_init_io, fop->sequenceImage(), the colour type, png_set_IHDR
onSave_set_IHDR ==
  /\ pc = "set_IHDR"
  /\ \E format \in {"IMAGE_RGB", "IMAGE_GRAYSCALE", "IMAGE_INDEXED"},
        alpha \in BOOLEAN, w \in 1..MaxWidth, h \in 1..MaxHeight :
       /\ pixelFormat' = format /\ needAlpha' = alpha
       /\ width' = w /\ height' = h
       /\ color_type' = SaveColorType(format, alpha, fix_one_alpha_pixel)
       /\ \E n \in HostColorCounts(format) :
            nColors' = n /\ palAlpha' \in HostPalettes(format, n)
       /\ transparentColor' \in SpriteTransparentColors(format)
  /\ pc' = "unknown_chunks"
  /\ UNCHANGED <<op, ret, path, resVars, errVars, inDomain, reads, opts,
                 number_passes, pass, stopVars, hasAlpha, trnsDeclared,
                 trnsColor, png_trans_color, plteRead, trans, alphaCalls,
                 pixVars, csVars, callVars, y, docChunks,
                 unknowns, handedChunks, fix_one_alpha_pixel, csType, scsVars,
                 bgLayer, tRNSSet, fileTrans>>
  /\ UNCHANGED procVars
  /\ UNCHANGED <<boundVars, accessVars, progVars, orderVars, num_palette,
                 colorCalls>>

\* one png_unknown_chunk of the vector: name[0..4], data, size, location
UnknownOf(chunk) ==
  [name |-> [i \in 1..5 |-> IF i - 1 < Len(chunk.name) THEN chunk.name[i] ELSE 0],
   data |-> chunk.data,
   size |-> Len(chunk.data),
   location |-> chunk.location]

\* what onSave passes to png_set_unknown_chunks: the call is commented out
HandUnknownChunks(handed, vector) == handed

\* "User chunks": fop->formatOptionsOfDocument<PngOptions>()
onSave_unknown_chunks ==
  /\ pc = "unknown_chunks"
  /\ \E chunks \in SeqsUpTo(Chunks, MaxChunks) :
       /\ docChunks' = chunks
       /\ IF chunks # <<>>
            THEN LET vector == [i \in 1..Len(chunks) |-> UnknownOf(chunks[i])] IN
                 /\ unknowns' = vector
                 /\ handedChunks' = HandUnknownChunks(handedChunks, vector)
            ELSE UNCHANGED <<unknowns, handedChunks>>
  /\ pc' = "save_color_space"
  /\ UNCHANGED <<op, ret, path, resVars, errVars, loadVars, color_type, width,
                 height, y, needAlpha, fix_one_alpha_pixel, csType, scsVars,
                 palVars,
                 pixelFormat>>
  /\ UNCHANGED procVars
  /\ UNCHANGED extVars

\* colour space types of the sprite; "null" = no colour space or
\* preserveColorProfile() is false, so saveColorSpace is not called
SaveColorSpaces == {"null", "None", "sRGB", "sRGBWithGamma", "RGB", "ICC"}

\* buffers saveColorSpace allocates
SaveColorSpaceMallocs(cs) ==
  IF cs = "ICC" THEN Bufs({"tainted_c_str", "tainted_iccData"}) ELSE {}

\* colorSpace->hasGamma() and hasPrimaries() for each type; "sRGB" stands
\* for an sRGB space without a gamma, "sRGBWithGamma" for one with
SaveColorSpaceFlags(cs) ==
  IF cs = "null" THEN { NoFlags }
  ELSE { f \in [hasGamma : BOOLEAN, hasPrimaries : BOOLEAN] :
           /\ cs = "sRGB" => ~f.hasGamma
           /\ cs = "sRGBWithGamma" => f.hasGamma }

\* the RGB case of the switch
SaveRGBCalls(f) ==
  (IF f.hasPrimaries THEN <<"png_set_cHRM_fixed">> ELSE <<>>)
    \o (IF f.hasGamma THEN <<"png_set_gAMA_fixed">> ELSE <<>>)

\* mutant: the sRGB case has no return and continues to the RGB case
saveColorSpaceFallsThrough(cs, f) ==
  IF cs \in {"null", "None"} THEN <<>>
  ELSE IF cs \in {"sRGB", "sRGBWithGamma"}
    THEN (IF ~f.hasGamma THEN <<"png_set_sRGB">> ELSE <<>>) \o SaveRGBCalls(f)
  ELSE IF cs = "RGB" THEN SaveRGBCalls(f)
  ELSE <<"png_set_iCCP">>
\* switch (colorSpace->type()): the domain functions invoked; nothing when
\* saveColorSpace is not called
saveColorSpace(cs, f) ==
  IF cs \in {"null", "None"} THEN <<>>
  ELSE IF cs \in {"sRGB", "sRGBWithGamma"}
    THEN (IF ~f.hasGamma THEN <<"png_set_sRGB">> ELSE SaveRGBCalls(f))
  ELSE IF cs = "RGB" THEN SaveRGBCalls(f)
  ELSE <<"png_set_iCCP">>

\* if (fop->preserveColorProfile() && colorSpace) saveColorSpace(...)
onSave_saveColorSpace ==
  /\ pc = "save_color_space"
  /\ \E cs \in SaveColorSpaces :
       /\ csType' = cs
       /\ \E f \in SaveColorSpaceFlags(cs) :
            csFlags' = f /\ csCalls' = saveColorSpace(cs, f)
       /\ MallocAll(SaveColorSpaceMallocs(cs))
  /\ pc' = "save_palette"
  /\ UNCHANGED <<op, ret, path, nFree, nBadFree, reg, unreg, errVars, loadVars,
                 color_type, width, height, y, docChunks, unknowns,
                 handedChunks, needAlpha, fix_one_alpha_pixel, palVars,
                 pixelFormat>>
  /\ UNCHANGED procVars
  /\ UNCHANGED extVars

\* base::clamp(value, low, high)
clamp(value, low, high) ==
  IF value < low THEN low ELSE IF high < value THEN high ELSE value

\* mask_entry: the transparent colour when the sprite has no visible
\* background layer, -1 otherwise
MaskEntry(background, tcolor) ==
  IF background \in {"absent", "hidden"} THEN tcolor ELSE -1

\* clean_trans[c] = (c == mask_entry ? 0 : alpha), c = 0..num_trans-1
\* mutant: the stored alpha is written for the mask entry too
CleanTransStored(alphas, num_trans, mask_entry) ==
  [c1 \in 1..num_trans |-> alphas[c1]]
CleanTrans(alphas, num_trans, mask_entry) ==
  [c1 \in 1..num_trans |-> IF c1 - 1 = mask_entry THEN 0 ELSE alphas[c1]]

\* all_opaque after the loop
AllOpaque(alphas, num_trans) == \A c1 \in 1..num_trans : ~(alphas[c1] < 255)

\* mutant: only a non-opaque entry makes onSave write the chunk
SetsTRNSNotOpaque(alphas, num_trans, mask_entry) ==
  ~AllOpaque(alphas, num_trans)
\* if (!all_opaque || mask_entry >= 0) png_set_tRNS(...)
SetsTRNS(alphas, num_trans, mask_entry) ==
  ~AllOpaque(alphas, num_trans) \/ mask_entry >= 0

\* the palette block: tainted_palette stays allocated, tainted_trans is freed.
\* Nothing reads the sprite's colour space after saveColorSpace: it leaves
\* the state here.
onSave_palette ==
  /\ pc = "save_palette"
  /\ IF color_type = PNG_COLOR_TYPE_PALETTE
       THEN \E background \in {"absent", "hidden", "visible"} :
              LET pal_size == clamp(nColors, 1, PNG_MAX_PALETTE_LENGTH)
                  mask_entry == MaskEntry(background, transparentColor)
                  set == SetsTRNS(palAlpha, pal_size, mask_entry) IN
              /\ MallocFree(Bufs({"tainted_palette", "tainted_trans"}),
                            Bufs({"tainted_trans"}))
              /\ num_palette' = pal_size
              /\ bgLayer' = background
              /\ tRNSSet' = set
              /\ fileTrans' = IF set THEN CleanTrans(palAlpha, pal_size, mask_entry)
                                     ELSE <<>>
       ELSE UNCHANGED <<heap, nMalloc, nFree, nBadFree, bgLayer, tRNSSet,
                       fileTrans, num_palette>>
  /\ csType' = "None" /\ csFlags' = NoFlags /\ csCalls' = <<>>
  /\ pc' = "write_info"
  /\ UNCHANGED <<op, ret, path, reg, unreg, errVars, loadVars, color_type,
                 width, height, y, docChunks, unknowns, handedChunks, needAlpha,
                 fix_one_alpha_pixel, palAlpha, pixelFormat>>
  /\ UNCHANGED procVars
  /\ UNCHANGED <<boundVars, accessVars, progVars, orderVars, nColors,
                 colorCalls>>

\* png_write_info writes the header chunks; png_set_packing,
\* png_get_rowbytes, tainted_row_pointer.  The row loop reads the image and
\* the palette only: what the header phase read from the document and handed
\* to the codec leaves the state here.
onSave_write_info ==
  /\ pc = "write_info"
  /\ MallocAll(Bufs({"tainted_row_pointer"}))
  /\ y' = 0
  /\ pc' = "write_rows"
  /\ docChunks' = <<>> /\ unknowns' = <<>> /\ handedChunks' = <<>>
  /\ csType' = "None" /\ transparentColor' = 0
  /\ csFlags' = NoFlags /\ csCalls' = <<>>
  /\ bgLayer' = "unread" /\ tRNSSet' = FALSE /\ fileTrans' = <<>>
  /\ UNCHANGED <<op, ret, path, nFree, nBadFree, reg, unreg, errVars,
                 inDomain, reads, opts, number_passes, pass, stopVars, hasAlpha,
                 trnsDeclared, trnsColor, png_trans_color, plteRead, trans,
                 alphaCalls, pixVars, csVars, callVars,
                 color_type, width, height, needAlpha, fix_one_alpha_pixel,
                 palAlpha, pixelFormat>>
  /\ UNCHANGED procVars
  /\ nColors' = 0 /\ num_palette' = 0
  /\ UNCHANGED <<boundVars, accessVars, progVars, orderVars, colorCalls>>

\* ------------------------------------------------- onSave, pixel conversion
\* host pixels of a pixel format: the pixels onLoad's conversion can produce
DecodedPixels(cts) ==
  UNION { { LoadPixel(ct, p, 0, tc) : p \in DomainPixels(ct), tc \in UninitColor16 } :
          ct \in cts }

HostPixels(format) ==
  IF format = "IMAGE_RGB"
    THEN DecodedPixels({PNG_COLOR_TYPE_RGB_ALPHA, PNG_COLOR_TYPE_RGB})
  ELSE IF format = "IMAGE_GRAYSCALE"
    THEN DecodedPixels({PNG_COLOR_TYPE_GRAY_ALPHA, PNG_COLOR_TYPE_GRAY})
  ELSE DecodedPixels({PNG_COLOR_TYPE_PALETTE})

\* rows of `w` host pixels; an indexed image uses indexes of its palette
HostRows(format, w, palette) ==
  { row \in [1..w -> HostPixels(format)] :
      format = "IMAGE_INDEXED" => \A x1 \in 1..w : row[x1].i < Len(palette) }

\* fop->sequenceGetColor(c, &r, &g, &b): the colours of the one palette of
\* the model; fop->sequenceGetAlpha(c, &a)
sequenceGetColor(c) == [r |-> 10 + c, g |-> 20 + c, b |-> 30 + c]
sequenceGetAlpha(palette, c) == palette[c + 1]

\* The alpha the loops of onSave write for the pixels x, x+1, ... of a row,
\* from the alphas of its pixels: `opaque` starts true in every row, turns
\* false at the first alpha below 255, and while it is true the last pixel
\* of the last row gets 254 when the fix-up flag is set.
RECURSIVE SaveAlphas(_, _, _, _, _)
\* mutant: the loops write every alpha as it is
SaveAlphasUnfixed(alphas, x, opaque, fixLast, out) == alphas
SaveAlphas(alphas, x, opaque, fixLast, out) ==
  IF x >= Len(alphas) THEN out
  ELSE LET a == alphas[x + 1] IN
       IF opaque /\ a < 255
         THEN SaveAlphas(alphas, x + 1, FALSE, fixLast, Append(out, a))
       ELSE IF opaque /\ fixLast /\ x = Len(alphas) - 1
         THEN SaveAlphas(alphas, x + 1, opaque, fixLast, Append(out, 254))
       ELSE SaveAlphas(alphas, x + 1, opaque, fixLast, Append(out, a))

RECURSIVE Flatten(_)
Flatten(ss) == IF ss = <<>> THEN <<>> ELSE Head(ss) \o Flatten(Tail(ss))

\* the bytes one iteration of the row loop leaves in the row buffer: `last`
\* is y == height-1; a colour type that no branch handles writes nothing
SaveRow(ct, format, row, palette, fix, last) ==
  LET w == Len(row) IN
  IF ct = PNG_COLOR_TYPE_RGB_ALPHA /\ format = "IMAGE_RGB"
    THEN LET a == SaveAlphas([x1 \in 1..w |-> row[x1].a], 0, TRUE, fix /\ last, <<>>) IN
         Flatten([x1 \in 1..w |-> <<row[x1].r, row[x1].g, row[x1].b, a[x1]>>])
  ELSE IF ct = PNG_COLOR_TYPE_RGB_ALPHA /\ format = "IMAGE_INDEXED"
    THEN LET a == SaveAlphas([x1 \in 1..w |-> sequenceGetAlpha(palette, row[x1].i)],
                             0, TRUE, fix /\ last, <<>>) IN
         Flatten([x1 \in 1..w |->
                    LET c == sequenceGetColor(row[x1].i) IN <<c.r, c.g, c.b, a[x1]>>])
  ELSE IF ct = PNG_COLOR_TYPE_RGB
    THEN Flatten([x1 \in 1..w |-> <<row[x1].r, row[x1].g, row[x1].b>>])
  ELSE IF ct = PNG_COLOR_TYPE_GRAY_ALPHA
    THEN LET a == SaveAlphas([x1 \in 1..w |-> row[x1].a], 0, TRUE, fix /\ last, <<>>) IN
         Flatten([x1 \in 1..w |-> <<row[x1].k, a[x1]>>])
  ELSE IF ct = PNG_COLOR_TYPE_GRAY
    THEN [x1 \in 1..w |-> row[x1].k]
  ELSE IF ct = PNG_COLOR_TYPE_PALETTE
    THEN [x1 \in 1..w |-> row[x1].i]
  ELSE <<>>

\* (double)(y+1) / (double)(height)
SaveProgress(row, h) == Quotient(row + 1, h)

\* one iteration of the row loop: convert row y of the image into the row
\* buffer, png_write_row, setProgress.  The image is read row by row and no
\* row is read twice, so the state keeps the row of the last iteration.
onSave_write_row ==
  /\ pc = "write_rows" /\ y < height
  /\ \E row \in HostRows(pixelFormat, width, palAlpha) :
       /\ imageRow' = row
       /\ rowbuf' = SaveRow(color_type, pixelFormat, row, palAlpha,
                            fix_one_alpha_pixel, y = height - 1)
  /\ y' = y + 1
  /\ nWriteRow' = nWriteRow + 1
  /\ progress' = SaveProgress(y, height)
  /\ UNCHANGED <<pc, op, ret, path, resVars, errVars, inDomain, reads, opts,
                 number_passes, pass, stopVars, hasAlpha, trnsVars, csVars,
                 callVars, color_type, width, height, saveVars, pixelFormat>>
  /\ UNCHANGED procVars
  /\ UNCHANGED <<boundVars, accessVars, lastRowRead, orderVars, plteVars>>

\* buffers the end of onSave gives to free_in_sandbox
SaveFinishFrees(format) ==
  IF format = "IMAGE_INDEXED" THEN Bufs({"tainted_palette"}) ELSE {}

\* png_free(row pointer) inside the sandbox, png_write_end, the palette
\* free, return true
onSave_finish ==
  /\ pc = "write_rows" /\ y >= height
  /\ heap' = (heap \ Bufs({"tainted_row_pointer"})) \ SaveFinishFrees(pixelFormat)
  /\ nFree' = nFree + Cardinality(SaveFinishFrees(pixelFormat))
  /\ nBadFree' = nBadFree + Cardinality(SaveFinishFrees(pixelFormat) \ heap)
  /\ rowbuf' = <<>> /\ imageRow' = <<>>
  /\ Return("true", "success")
  /\ UNCHANGED <<op, nMalloc, reg, unreg, errVars, inDomain, reads, opts,
                 number_passes, pass, stopVars, hasAlpha, trnsVars, csVars,
                 callVars, color_type, width, height, y, saveVars, pixelFormat>>
  /\ UNCHANGED procVars
  /\ UNCHANGED extVars

onSave ==
  \/ onSave_open \/ onSave_create_write_struct \/ onSave_create_info_struct
  \/ onSave_set_IHDR \/ onSave_unknown_chunks \/ onSave_saveColorSpace
  \/ onSave_palette \/ onSave_write_info \/ onSave_write_row \/ onSave_finish

Next ==
  \/ app_main \/ PngEncoderOneAlphaPixel
  \/ onLoad \/ read_data_fn \/ png_user_chunk \/ onSave

Spec == Init /\ [][Next]_vars

\* a process whose file operation is a decode / an encode
LoadNext == app_main \/ onLoad \/ read_data_fn \/ png_user_chunk
LoadSpec == Init /\ [][LoadNext]_vars

\* a decode of a file that may take control of the codec
HostileNext == LoadNext \/ codec_compromised
HostileSpec == Init /\ [][HostileNext]_vars

SaveNext == app_main \/ PngEncoderOneAlphaPixel \/ onSave
SaveSpec == Init /\ [][SaveNext]_vars

\* ================================================================== claims
\* onLoad / onSave has returned to its caller (by return or by exception);
\* an aborted process returns nowhere.
LoadReturned == op = "load" /\ pc = "done" /\ ret \in {"true", "false", "threw"}
SaveReturned == op = "save" /\ pc = "done" /\ ret \in {"true", "false", "threw"}

\* C1: when onLoad returns, on every return path, the number of
\* free_in_sandbox calls equals the number of malloc_in_sandbox calls.
C1_LoadFreesEqualMallocs == LoadReturned => nFree = nMalloc

\* C2: when onSave returns, on every return path, every buffer obtained with
\* malloc_in_sandbox has been released exactly once.
C2_SaveBuffersReleasedOnce == SaveReturned => (heap = {} /\ nBadFree = 0)

\* C3: every callback registered in onLoad is unregistered exactly once
\* before onLoad returns, on every return path, and no callback is ever
\* unregistered that was not registered in that call.
C3_CallbacksUnregisteredOnce ==
  op = "load" =>
    /\ \A cb \in Callbacks : unreg[cb] <= reg[cb]
    /\ LoadReturned => \A cb \in Callbacks : unreg[cb] = reg[cb]

\* C3 witness: onLoad returned through the info-struct failure, where one
\* callback was registered and the other was not.
C3_Witness ==
  /\ LoadReturned /\ path = "info_null"
  /\ reg["userChunkCb"] = 1 /\ unreg["userChunkCb"] = 1
  /\ reg["readDataCb"] = 0

\* C4: every app-pointer token created in onLoad is unregistered exactly
\* once before onLoad returns, on every return path reached after the token
\* was created.
C4_AppPointersUnregisteredOnce ==
  op = "load" =>
    /\ \A t \in AppPtrs : unreg[t] <= reg[t]
    /\ LoadReturned => \A t \in AppPtrs : unreg[t] = reg[t]

\* C4 witness: onLoad returned through the unsupported-colour-type path with
\* both tokens created and released.
C4_Witness ==
  /\ LoadReturned /\ path = "color_type"
  /\ \A t \in AppPtrs : reg[t] = 1 /\ unreg[t] = 1

\* the only message of the model that contains "read error"
ContainsReadError(msg) == msg = "read error in read_data_memory"

\* C5: when read_data_fn gets fewer bytes than requested, onLoad returns
\* false and the message attached to the FileOp contains "read error".
C5_ShortReadReported ==
  (op = "load" /\ pc = "done" /\ pngError # "") =>
    (ret = "false" /\ ContainsReadError(fopError))

\* C6: once isStop() has returned true, onLoad issues no further
\* png_read_rows call, in the current pass or in a later one.
C6_NoRowReadAfterStop == op = "load" => ~readAfterStop

\* C7: a decode cancelled through isStop() has, when onLoad returns, freed
\* every row buffer and the row-pointer array and unregistered both
\* callbacks and both app-pointer tokens.
C7_CancelledDecodeTornDown ==
  (LoadReturned /\ stopFlag) =>
    /\ \A b \in heap : b[1] \notin {"row", "rows_pointer"}
    /\ \A h \in Handles : reg[h] = 1 /\ unreg[h] = 1

\* C7 witness: a decode of more than one row and more than one pass was
\* cancelled and returned.
C7_Witness ==
  /\ LoadReturned /\ stopFlag /\ ret = "true"
  /\ height > 1 /\ number_passes > 1 /\ readAfterStop

\* C8: every unrecognized chunk of the document's format options is handed
\* to the codec by onSave with its tag, placement and payload (looked at
\* where the user-chunk block of onSave ends).
C8_UnknownChunksWritten ==
  (op = "save" /\ pc = "save_color_space") =>
    \A i \in 1..Len(docChunks) :
      \E j \in 1..Len(handedChunks) :
        /\ SubSeq(handedChunks[j].name, 1, 4) = docChunks[i].name
        /\ handedChunks[j].location = docChunks[i].location
        /\ handedChunks[j].data = docChunks[i].data

\* the samples of pixel x (1-based) of the converted row equal the declared
\* transparent colour
EqualsDeclaredColor(x) ==
  /\ trnsDeclared
  /\ IF color_type = PNG_COLOR_TYPE_RGB
       THEN /\ rowbuf[3*(x - 1) + 1] = trnsColor.red
            /\ rowbuf[3*(x - 1) + 2] = trnsColor.green
            /\ rowbuf[3*(x - 1) + 3] = trnsColor.blue
       ELSE rowbuf[x] = trnsColor.gray

\* C9: decoding RGB or grayscale without alpha channel, a pixel gets alpha 0
\* when its samples equal the declared transparent colour and alpha 255
\* otherwise; with no transparent colour declared every pixel gets 255.
C9_TransparentColorAlpha ==
  (op = "load" /\ imageRow # <<>>
     /\ color_type \in {PNG_COLOR_TYPE_RGB, PNG_COLOR_TYPE_GRAY}) =>
    \A x \in 1..width :
      imageRow[x].a = IF EqualsDeclaredColor(x) THEN 0 ELSE 255

\* indexes of the tRNS list whose alpha is 0
ZeroAlphas(alphas) == {i \in 0..(Len(alphas) - 1) : alphas[i + 1] = 0}
Smallest(S) == CHOOSE m \in S : \A n \in S : m <= n

\* C10: decoding an indexed image with a tRNS chunk of n alphas, alpha i is
\* assigned to palette index i for i = 0..n-1 in increasing order, and the
\* sprite's transparent colour becomes the smallest index whose alpha is 0,
\* or stays as it was when no listed alpha is 0.
C10_PaletteAlphas ==
  [][(pc = "palette" /\ plteRead' /\ trnsDeclared') =>
       /\ alphaCalls' = [i \in 1..Len(trans') |-> <<i - 1, trans'[i]>>]
       /\ transparentColor' =
            IF ZeroAlphas(trans') # {} THEN Smallest(ZeroAlphas(trans'))
            ELSE transparentColor]_vars

\* C10 witness: the palette block read a tRNS list with two fully
\* transparent entries.
C10_Witness ==
  /\ op = "load" /\ pc = "alloc_rows" /\ plteRead /\ trnsDeclared
  /\ Cardinality(ZeroAlphas(trans)) > 1
  /\ alphaCalls # <<>>

\* C11: when onSave writes the palette of an indexed image whose background
\* layer is absent or not visible, the alpha handed to the codec for the
\* sprite's transparent-colour index is 0 whatever alpha is stored for it,
\* and the alpha handed over for every other palette index is its stored alpha.
C11_MaskEntryAlphaZero ==
  (op = "save" /\ color_type = PNG_COLOR_TYPE_PALETTE
     /\ bgLayer \in {"absent", "hidden"}) =>
    /\ tRNSSet
    /\ Len(fileTrans) = Len(palAlpha)
    /\ \A c \in 0..(Len(palAlpha) - 1) :
         fileTrans[c + 1] = IF c = transparentColor THEN 0 ELSE palAlpha[c + 1]

\* C11 witness: a hidden background, a transparent-colour entry stored
\* opaque and written with alpha 0, another entry written as stored.
C11_Witness ==
  /\ op = "save" /\ color_type = PNG_COLOR_TYPE_PALETTE /\ bgLayer = "hidden"
  /\ Len(palAlpha) = 2 /\ transparentColor = 1
  /\ palAlpha[2] = 255 /\ fileTrans[2] = 0
  /\ palAlpha[1] = 128 /\ fileTrans[1] = 128

\* C12: loadColorSpace resolves the colour space by fixed priority, first match
\* wins: iCCP gives the ICC variant; else sRGB gives sRGB; else cHRM gives RGB
\* with primaries, with the declared gamma (1 / the file's gAMA value) when a
\* gAMA chunk is present and the sRGB gamma otherwise; else gAMA alone gives
\* sRGB primaries with the declared gamma; else null.
C12_ColorSpacePriority ==
  csChunks.read =>
    LET declared == Quotient(100000, csChunks.invGamma) IN
    colorSpace =
      IF csChunks.iCCP THEN MakeICC
      ELSE IF csChunks.sRGB THEN MakeSRGB
      ELSE IF csChunks.cHRM /\ csChunks.gAMA THEN MakeRGB(declared)
      ELSE IF csChunks.cHRM THEN MakeRGBWithSRGBGamma
      ELSE IF csChunks.gAMA THEN MakeSRGBWithGamma(declared)
      ELSE nullptr

C14_UnsupportedColorTypeRejected ==
  (op = "load" /\ width > 0
     /\ color_type \notin { PNG_COLOR_TYPE_RGB, PNG_COLOR_TYPE_RGB_ALPHA,
                            PNG_COLOR_TYPE_GRAY, PNG_COLOR_TYPE_GRAY_ALPHA,
                            PNG_COLOR_TYPE_PALETTE }) =>
    /\ pc = "done" /\ ret = "false"
    /\ fopError # ""
    /\ ~imageRequested
    /\ ~rowReadIssued

C14_Witness ==
  /\ op = "load" /\ color_type = 7 /\ width > 0
  /\ pc = "done" /\ ret = "false" /\ path = "color_type"
  /\ fopError = "Color type not supported"

\* C15: the isolation domain is created exactly once at process start, before
\* any decode or encode call, and is destroyed exactly once at process end on
\* every exit path of app_main (normal return and caught exception).
C15_DomainCreatedAndDestroyedOnce ==
  /\ nCreate <= 1
  /\ (op # "none" => nCreate = 1)
  /\ (mainPc \in {"returned", "caught"} => nDestroy = 1)

C17_FixFlagScopedToGuard ==
  /\ (fix_one_alpha_pixel => guard = "alive_true")
  /\ (guard = "destroyed" => ~fix_one_alpha_pixel)

\* an RGB image without needAlpha was encoded with an alpha channel, so the
\* guard was constructed with true
C17_Witness ==
  /\ guard = "destroyed" /\ ~fix_one_alpha_pixel
  /\ op = "save" /\ pc = "done" /\ ret = "true"
  /\ pixelFormat = "IMAGE_RGB" /\ ~needAlpha
  /\ color_type = PNG_COLOR_TYPE_RGB_ALPHA

\* the alpha of pixel x of the host row just converted, and the alpha the
\* loop stored for it in the row buffer (4 samples per pixel for RGB+alpha,
\* 2 for gray+alpha)
HostAlpha(x) ==
  IF pixelFormat = "IMAGE_INDEXED"
    THEN sequenceGetAlpha(palAlpha, imageRow[x + 1].i)
    ELSE imageRow[x + 1].a
WrittenAlpha(x) ==
  IF color_type = PNG_COLOR_TYPE_RGB_ALPHA THEN rowbuf[4 * x + 4]
                                           ELSE rowbuf[2 * x + 2]

\* a row has just been written by an encode with an alpha channel while the
\* fix-up flag is set; the row is the last one when y = height
FixUpRowWritten ==
  /\ op = "save" /\ pc = "write_rows" /\ imageRow # <<>>
  /\ fix_one_alpha_pixel
  /\ color_type \in {PNG_COLOR_TYPE_RGB_ALPHA, PNG_COLOR_TYPE_GRAY_ALPHA}

\* C18 as stated: when the one-pixel fix-up is active and the final pixel
\* (x = width-1, y = height-1) has alpha 255, the alpha written for it is
\* 254, for every image content and every pixel format encoded with an alpha
\* channel; the alpha of every other pixel is written unchanged.
C18_FinalPixelAlpha254 ==
  FixUpRowWritten =>
    \A x \in 0..(width - 1) :
      IF y = height /\ x = width - 1
        THEN (HostAlpha(x) = 255 => WrittenAlpha(x) = 254)
        ELSE WrittenAlpha(x) = HostAlpha(x)

\* C18, amended: when the one-pixel fix-up is active, the final pixel has
\* alpha 255 and no earlier pixel of the final row has alpha below 255, the
\* alpha written for the final pixel is 254, for every pixel format encoded
\* with an alpha channel; the alpha of every other pixel is written
\* unchanged.
C18_FinalPixelAlpha254IfRowOpaque ==
  FixUpRowWritten =>
    \A x \in 0..(width - 1) :
      IF y = height /\ x = width - 1
        THEN ((\A x0 \in 0..x : HostAlpha(x0) = 255) => WrittenAlpha(x) = 254)
        ELSE WrittenAlpha(x) = HostAlpha(x)

C18_Witness ==
  /\ FixUpRowWritten
  /\ y = height /\ width = 2
  /\ pixelFormat = "IMAGE_INDEXED"
  /\ HostAlpha(0) = 255 /\ HostAlpha(1) = 255
  /\ WrittenAlpha(0) = 255 /\ WrittenAlpha(1) = 254

\* png_set_IHDR has just been called with the colour type chosen for an RGB
\* or indexed host image
ColorTypeChosen ==
  /\ op = "save" /\ pc = "unknown_chunks"
  /\ pixelFormat \in {"IMAGE_RGB", "IMAGE_INDEXED"}

\* C19 as stated: for an RGB or indexed host image, onSave chooses a colour
\* type with an alpha channel if and only if the sprite declares that alpha
\* is needed (needAlpha) or the one-pixel fix-up is active; otherwise it
\* chooses RGB for an RGB image and palette for an indexed image.
C19_AlphaChannelIffNeeded ==
  ColorTypeChosen =>
    color_type =
      IF needAlpha \/ fix_one_alpha_pixel THEN PNG_COLOR_TYPE_RGB_ALPHA
      ELSE IF pixelFormat = "IMAGE_RGB" THEN PNG_COLOR_TYPE_RGB
      ELSE PNG_COLOR_TYPE_PALETTE

\* C19, amended: for an RGB host image, onSave chooses a colour type with an
\* alpha channel if and only if needAlpha is declared or the one-pixel fix-up
\* is active; for an indexed host image, if and only if the one-pixel fix-up
\* is active; otherwise it chooses RGB for an RGB image and palette for an
\* indexed image.
C19_AlphaChannelIffNeededOrFixUp ==
  ColorTypeChosen =>
    color_type =
      IF fix_one_alpha_pixel \/ (needAlpha /\ pixelFormat = "IMAGE_RGB")
        THEN PNG_COLOR_TYPE_RGB_ALPHA
      ELSE IF pixelFormat = "IMAGE_RGB" THEN PNG_COLOR_TYPE_RGB
      ELSE PNG_COLOR_TYPE_PALETTE

C19_Witness ==
  /\ ColorTypeChosen
  /\ pixelFormat = "IMAGE_INDEXED" /\ needAlpha /\ ~fix_one_alpha_pixel
  /\ color_type = PNG_COLOR_TYPE_PALETTE

\* A row of an image the decoder produced has just been encoded with the
\* fix-up inactive.  The decoder reports alpha (sequenceSetHasAlpha) for
\* every RGB or grayscale image it gives a pixel with alpha below 255, so
\* the sprite of such an image declares needAlpha.
DecodedRowEncoded ==
  /\ op = "save" /\ pc = "write_rows" /\ imageRow # <<>>
  /\ ~fix_one_alpha_pixel
  /\ (pixelFormat # "IMAGE_INDEXED" /\ \E x \in 0..(width - 1) : HostAlpha(x) < 255)
       => needAlpha

\* png_trans_color of the decode of a file onSave wrote: onSave writes a
\* tRNS chunk for a palette image only, so the decoder reads the cell of
\* png_trans_color_ptr as malloc_in_sandbox left it
ReDecodeTransColors == UninitColor16

\* C20: with the one-pixel fix-up inactive, for every image the decoder can
\* produce, converting its rows with the encode conversion of onSave and
\* converting the resulting row bytes back with the decode conversion of
\* onLoad yields the same pixel content.
C20_EncodeDecodeRoundTrip ==
  DecodedRowEncoded =>
    \A tc \in ReDecodeTransColors :
      LoadRow(color_type, rowbuf, width, tc) = imageRow

\* C21: whatever values the domain returns during a decode, the pixel
\* conversion of onLoad writes only inside the host image obtained from
\* sequenceImage (x < its width, y < its height) and reads from each row
\* buffer only within the length the buffer was allocated and verified for.
\* The row just converted is y - 1; it has `width` pixels.
C21_ConversionInBounds ==
  (op = "load" /\ pc = "convert" /\ imageRow # <<>>) =>
    /\ width <= imageWidth
    /\ y - 1 < imageHeight
    /\ RowBytes(color_type, width) <= numRowBytes

\* C22: in read_data_fn and png_user_chunk every pointer/length pair received
\* from the domain is verified for exactly the declared length before any
\* byte is copied through it: the read handler writes only into a range
\* verified for the requested size, the chunk observer copies the payload
\* only from a range verified for the declared payload size.
C22_CallbackRangesVerified ==
  /\ (ioAccess.copied > 0 => ioAccess.verified = ioAccess.declared)
  /\ (chunkAccess.copied > 0 => chunkAccess.verified = chunkAccess.declared)

\* C23: whenever onLoad or onSave returns false, a message has been attached
\* to the FileOp through setError during that call.
C23_FalseReturnHasMessage ==
  (op \in {"load", "save"} /\ pc = "done" /\ ret = "false") => fopError # ""

\* the sequence s back to front
Reverse(s) == [i \in 1..Len(s) |-> s[Len(s) + 1 - i]]

\* C26: within one onLoad call the callbacks and app-pointer tokens are
\* released in the reverse order of their acquisition on every return path
\* that releases more than one.
C26_ReleasedInReverseOrder ==
  (op = "load" /\ pc = "done" /\ Len(unregOrder) > 1) =>
    unregOrder = Reverse(regOrder)

\* C24: within each decode pass row reads are issued in strictly increasing
\* row order starting at row 0, and passes run in increasing order
\* 0..number_passes-1; an encode issues exactly one png_write_row per row,
\* for rows 0..height-1 in increasing order.
C24_RowOrder ==
  [][/\ (op = "load" /\ inDomain = "none" /\ inDomain' = "png_read_rows") =>
          /\ lastRowRead'.pass \in 0..(number_passes - 1)
          /\ lastRowRead'.y \in 0..(height - 1)
          /\ IF lastRowRead = NoRow
               THEN lastRowRead'.pass = 0 /\ lastRowRead'.y = 0
               ELSE \/ /\ lastRowRead'.pass = lastRowRead.pass
                       /\ lastRowRead'.y = lastRowRead.y + 1
                    \/ /\ lastRowRead'.pass = lastRowRead.pass + 1
                       /\ lastRowRead'.y = 0
     /\ (op = "save" /\ nWriteRow' # nWriteRow) =>
          /\ nWriteRow' = nWriteRow + 1
          /\ y = nWriteRow /\ y < height
     /\ (op = "save" /\ pc' = "done" /\ ret' = "true") => nWriteRow' = height']_vars

C24_Witness ==
  /\ op = "load" /\ inDomain = "png_read_rows"
  /\ height = 2 /\ number_passes = 2 /\ ~stopFlag
  /\ lastRowRead.pass = 1 /\ lastRowRead.y = 1

\* C25: during decode the value passed to setProgress after reading row y of
\* pass p equals (p + (y+1)/height) / number_passes; every reported value
\* lies in [0,1], the reported values never decrease (also across a
\* cancelled row loop), and an uncancelled decode reports 1 last.
C25_LoadProgress ==
  [][/\ (op = "load" /\ inDomain = "png_read_rows" /\ inDomain' = "none"
           /\ pc' # "done") =>
          /\ progress'.den > 0
          /\ progress'.num * (height * number_passes)
               = (lastRowRead.pass * height + lastRowRead.y + 1) * progress'.den
          /\ 0 <= progress'.num /\ progress'.num <= progress'.den
          /\ QuotientLeq(progress, progress')
     /\ (op = "load" /\ pc = "read_rows" /\ pc' = "convert" /\ ~stopFlag') =>
          progress'.num = progress'.den]_vars

\* the row loop of pass 0 was left by cancellation after row 0 (1/4), row 0
\* of pass 1 has been read and reported (3/4)
C25_Witness ==
  /\ op = "load" /\ pc = "convert" /\ stopFlag /\ readAfterStop
  /\ height = 2 /\ number_passes = 2
  /\ lastRowRead.pass = 1 /\ lastRowRead.y = 0
  /\ progress.num * 4 = 3 * progress.den

\* the row buffers currently allocated in the foreign heap
LiveRowBuffers == {b \in heap : b[1] = "row"}

\* C27: every row buffer is allocated before the first row read of the first
\* pass; row buffer y is freed exactly once, right after row y is converted
\* and before row y+1 is converted; no row buffer is read or passed to the
\* domain after being freed; the row-pointer array is freed once, after the
\* last row buffer.
C27_RowBufferLifetime ==
  [][op = "load" =>
      /\ (inDomain = "none" /\ inDomain' = "png_read_rows") =>
            /\ LiveRowBuffers = RowBuffers(height)
            /\ Buf("rows_pointer") \in heap
      /\ (pc = "convert" /\ y' = y + 1) =>
            /\ LiveRowBuffers = {RowBuf(r) : r \in y..(height - 1)}
            /\ Buf("rows_pointer") \in heap
            /\ heap' = heap \ {RowBuf(y)}
            /\ nFree' = nFree + 1
      /\ (pc = "convert" /\ pc' # "convert") =>
            /\ LiveRowBuffers = {}
            /\ Buf("rows_pointer") \in heap
            /\ heap' = heap \ {Buf("rows_pointer")}
            /\ nFree' = nFree + 1
      /\ nBadFree' = 0]_vars

C27_Witness ==
  /\ op = "load" /\ pc = "convert" /\ height = 2 /\ y = 1
  /\ RowBuf(0) \notin heap /\ RowBuf(1) \in heap

\* the phase of a decode each position of onLoad belongs to: 0 set-up,
\* 1 header read, 2 palette/transparency read, 3 row reads, 4 pixel
\* conversion, 5 colour-space resolution, 6 done
PhaseOf(p) ==
  CASE p \in {"idle", "create_read_struct", "create_info_struct",
              "set_read_fn"} -> 0
    [] p \in {"read_info", "sequence_image"} -> 1
    [] p = "palette" -> 2
    [] p \in {"alloc_rows", "read_rows"} -> 3
    [] p = "convert" -> 4
    [] p \in {"color_space", "finish"} -> 5
    [] OTHER -> 6

\* buffers a step allocates / frees
Allocated == heap' \ heap
Freed == heap \ heap'

\* C28: a decode runs its phases in the order header read,
\* palette/transparency read, row reads, pixel conversion, colour-space
\* resolution, done; no operation of an earlier phase is performed once a
\* later phase has started, and once onLoad has decided to fail (it has a
\* return value) no operation of any phase is performed.
C28_PhaseOrder ==
  [][(op = "load" /\ op' = "load") =>
      /\ PhaseOf(pc) <= PhaseOf(pc')
      /\ (inDomain = "none" /\ inDomain' = "png_read_info")
           => PhaseOf(pc') = 1
      /\ (Buf("sb_width") \in Allocated \/ imageRequested' # imageRequested)
           => PhaseOf(pc) = 1
      /\ (Buf("png_trans_color_ptr") \in Allocated \/ plteRead' # plteRead)
           => PhaseOf(pc) = 2
      /\ ((inDomain = "none" /\ inDomain' = "png_read_rows") \/ Buf("rows_pointer") \in Allocated)
           => PhaseOf(pc) = 3
      /\ (Buf("rows_pointer") \in Freed \/ LiveRowBuffers \cap Freed # {}
            \/ (imageRow' # imageRow /\ imageRow' # <<>>))
           => PhaseOf(pc) = 4
      /\ (IccBufs \cap Allocated # {} \/ colorSpace' # colorSpace
            \/ spriteColorSpace' # spriteColorSpace)
           => PhaseOf(pc) = 5
      /\ ret # "none" =>
           /\ pc' = pc /\ inDomain' = inDomain /\ heap' = heap
           /\ UNCHANGED <<plteRead, lastRowRead, imageRow, colorSpace,
                          spriteColorSpace>>]_vars

\* a decode that has gone through every phase
C28_Witness ==
  /\ op = "load" /\ pc = "done" /\ ret = "true"
  /\ number_passes = 2 /\ height = 2 /\ plteRead /\ rowReadIssued
  /\ colorSpace.kind # "unset"

\* C29: when onSave encodes with the palette colour type, it writes the
\* transparency chunk (png_set_tRNS) if and only if some written palette
\* entry has a stored alpha below 255 or a mask index is designated; the
\* number of palette entries written is the host's colour count clamped to
\* 1..256.
C29_PaletteAndTRNS ==
  (op = "save" /\ pc = "write_info" /\ color_type = PNG_COLOR_TYPE_PALETTE) =>
    /\ num_palette = (IF nColors < 1 THEN 1
                      ELSE IF nColors > 256 THEN 256 ELSE nColors)
    /\ tRNSSet <=> \/ \E c \in 0..(num_palette - 1) :
                        sequenceGetAlpha(palAlpha, c) < 255
                   \/ bgLayer \in {"absent", "hidden"}
    /\ tRNSSet => Len(fileTrans) = num_palette

\* a palette of 257 colours, opaque in its first 255 entries, written as
\* 256 entries with a transparency chunk although the background is visible
C29_Witness ==
  /\ op = "save" /\ pc = "write_info" /\ color_type = PNG_COLOR_TYPE_PALETTE
  /\ nColors = 257 /\ num_palette = 256
  /\ bgLayer = "visible" /\ tRNSSet /\ palAlpha[256] = 0

\* C30: when an indexed image is decoded, the palette entries are passed to
\* the host in increasing index order 0..n-1, each with the red, green and
\* blue of the domain's entry of the same index, and n never exceeds 256
\* whatever count the domain reports.
C30_PaletteEntriesInOrder ==
  (op = "load" /\ pc = "alloc_rows" /\ plteRead) =>
    /\ Len(colorCalls) <= 256
    /\ \A c \in 0..(Len(colorCalls) - 1) :
         /\ colorCalls[c + 1].index = c
         /\ colorCalls[c + 1].color = DomainPalette(c)

\* how often saveColorSpace invoked the domain function fn
NumCalls(fn) == Cardinality({i \in 1..Len(csCalls) : csCalls[i] = fn})

\* C31: saveColorSpace applies one mapping per variant: None issues no
\* domain call; sRGB without gamma issues only png_set_sRGB; RGB (and sRGB
\* with gamma) issues png_set_cHRM_fixed exactly when primaries are present
\* and png_set_gAMA_fixed exactly when gamma is present; ICC issues exactly
\* png_set_iCCP; no variant writes chunks of another variant.
C31_SaveColorSpaceMapping ==
  (op = "save" /\ pc = "save_palette" /\ csType # "null") =>
    /\ csType = "None" => csCalls = <<>>
    /\ csType = "sRGB" => csCalls = <<"png_set_sRGB">>
    /\ csType \in {"RGB", "sRGBWithGamma"} =>
         /\ NumCalls("png_set_cHRM_fixed") = (IF csFlags.hasPrimaries THEN 1 ELSE 0)
         /\ NumCalls("png_set_gAMA_fixed") = (IF csFlags.hasGamma THEN 1 ELSE 0)
         /\ NumCalls("png_set_sRGB") = 0 /\ NumCalls("png_set_iCCP") = 0
    /\ csType = "ICC" => csCalls = <<"png_set_iCCP">>

\* an sRGB space with a gamma and primaries, written as cHRM and gAMA
C31_Witness ==
  /\ op = "save" /\ pc = "save_palette" /\ csType = "sRGBWithGamma"
  /\ csFlags.hasPrimaries
  /\ csCalls = <<"png_set_cHRM_fixed", "png_set_gAMA_fixed">>

\* handle h is registered and not unregistered
Registered(h) == reg[h] = 1 /\ unreg[h] = 0

\* C32: whenever read_data_fn or png_user_chunk runs lookup_app_ptr during a
\* decode, the token it looks up is currently registered: the domain
\* functions that can trigger the callbacks (png_read_info, png_read_rows)
\* run only after get_app_pointer and register_callback and before the
\* unregister calls.  A callback runs only inside one of these functions.
C32_TokensRegisteredInCallbacks ==
  (op = "load" /\ inDomain \in {"png_read_info", "png_read_rows"}) =>
    /\ Registered("appPtr") /\ Registered("readDataCb")
    /\ Registered("optsPtr") /\ Registered("userChunkCb")

\* both callbacks have run and a row read is under way
C32_Witness ==
  /\ op = "load" /\ inDomain = "png_read_rows"
  /\ Len(opts) > 0 /\ reads > 0

====
